---- MODULE Spec2Model ----
(***************************************************************************)
(* A model of the core of another_gpu_path_tracer: the priority-ordered    *)
(* medium list carried by each ray (MediumList_t), the bounce loop of      *)
(* Scene_t::Accessor_t::raycast with intersect_brute, and the spherical    *)
(* camera with its accumulation image (SphericalCamera_t, SimpleImage_t),  *)
(* the buffers of Scene_t, the constructors of RandomGenerator_t, and      *)
(* TransformMatrix_t with Triangle_t and the parallel rotation test.       *)
(* Each part has its own specification; the variables of the other parts   *)
(* are held at their constructed values.                                   *)
(***************************************************************************)
EXTENDS Integers, Sequences, FiniteSets, TLC

VARIABLES
    medium_list,   \* the MediumList_t under test: [n_mediums_, mediums_]
    seeded,        \* history: the list was constructed with two outside media
    adds,          \* history: the media passed to add_to_mediums, in order
    pending,       \* history: adds not yet matched by a remove, per medium
    nops,          \* history: number of calls made on the list
    clean,         \* history: every remove so far named a medium with a pending add,
                   \* and the list held fewer than N entries after every call
    start,         \* history: the list as it was constructed
    lastop         \* history: the last call: [op, medium, before, slots], slots
                   \* being the indices of mediums_ the call read or wrote

listVars == <<medium_list, seeded, adds, pending, nops, clean, start, lastop>>

VARIABLES
    ray,           \* the Ray_t passed to raycast by reference
    max_bounces,   \* raycast's max_bounces argument
    bounces,       \* raycast's local bounce counter
    pc,            \* position of the raycast call in its loop
    hit,           \* result of the last intersect_brute call: hit_obj, t, uv
    ray0,          \* history: the ray as it was when raycast was called
    log            \* history: the calls raycast has made, in order

rayVars == <<ray, max_bounces, bounces, pc, hit, ray0, log>>

VARIABLES
    up_,           \* SphericalCamera_t::up_, the up vector raytrace uses
    up_buffer_,    \* the up vector stored until the next update()
    fov_,          \* field of view raytrace uses, <<vertical, horizontal>>
    fov_buffer_,   \* the field of view stored until the next update()
    medium_list_,  \* the camera's own medium list
    gammaind_,     \* the camera's gammaind_, passed to image_.write
    scene,         \* what the camera looks at: [kind, background]
    image_,        \* SimpleImage_t: [img_, updates_]
    rng_,          \* RandomGenerator_t::rng_, one generator state per pixel
    written,       \* the 16-bit grey values the last write() gave the encoder
    kernel,        \* the values the raytrace kernel captured at submission
    wi,            \* the work items of the dispatch: [pc, subindex, col, tmp]
    touched,       \* history: the buffer slots each work item has accessed
    submitted,     \* history: img_ and rng_ when the dispatch was submitted
    lastcall,      \* history: the last camera method called
    ncalls,        \* history: number of camera methods called
    ntraces,       \* history: raytrace calls since construction or reset()
    contribs,      \* history: per pixel, the colours added since construction or reset()
    used           \* history: the up_ and fov_ the last raytrace used

camVars == <<up_, up_buffer_, fov_, fov_buffer_, medium_list_, gammaind_, scene,
             image_, rng_, written, kernel, wi, touched, submitted, lastcall,
             ncalls, ntraces, contribs, used>>

VARIABLES
    shapes_,       \* Scene_t::shapes_, the buffer of shapes, as a sequence
    materials_,    \* Scene_t::materials_
    mediums_,      \* Scene_t::mediums_
    scenelast,     \* history: the last add or remove: [op, x, before, after]
    sceneops       \* history: number of add and remove calls made

sceneVars == <<shapes_, materials_, mediums_, scenelast, sceneops>>

VARIABLES
    accum,         \* the accumulateWrite call: [pc, n, n_iter, interval]
    acclog         \* history: the raytrace and write calls it made: [call, n]

accVars == <<accum, acclog>>

VARIABLES
    generator      \* a RandomGenerator_t under construction:
                   \* [ctor, size, seed, rng_], rng_ giving each pixel the
                   \* seed of its generator, -1 while it is not constructed

genVars == <<generator>>

VARIABLES
    transform_matrix,  \* a TransformMatrix_t: [matrix_, matrix_inverse_]
    tcalls             \* history: the number of mutating calls made on it
                       \* and the name of the last one

transformVars == <<transform_matrix, tcalls>>

VARIABLES
    triangle,      \* a Triangle_t, one field of the record per member
    trilast        \* history: the last call made on the triangle, the one
                   \* before it, and the cached fields before the last update

triangleVars == <<triangle, trilast>>

VARIABLES
    triangles,         \* the triangles the buffer was filled with
    triangle_buffer,   \* the buffer the kernel works on
    rotation,          \* the dispatch: its angle and the next call of each work item
    host_accessor      \* what the host read from the buffer, <<>> before it reads

rotateVars == <<triangles, triangle_buffer, rotation, host_accessor>>

VARIABLES
    call           \* one call of a function under test: its name, its
                   \* arguments and, once it has returned, what it left

callVars == <<call>>

vars == <<listVars, rayVars, camVars, sceneVars, accVars, genVars,
          transformVars, triangleVars, rotateVars, callVars>>

\* the variables of the other parts
otherThanList == <<rayVars, camVars, sceneVars, accVars, genVars, transformVars, triangleVars, rotateVars, callVars>>
otherThanRay == <<listVars, camVars, sceneVars, accVars, genVars, transformVars, triangleVars, rotateVars, callVars>>
otherThanCam == <<listVars, rayVars, sceneVars, accVars, genVars, transformVars, triangleVars, rotateVars, callVars>>
otherThanScene == <<listVars, rayVars, camVars, accVars, genVars, transformVars, triangleVars, rotateVars, callVars>>
otherThanAcc == <<listVars, rayVars, sceneVars, genVars, transformVars, triangleVars, rotateVars, callVars>>
otherThanGen == <<listVars, rayVars, camVars, sceneVars, accVars, transformVars, triangleVars, rotateVars, callVars>>
otherThanTransform == <<listVars, rayVars, camVars, sceneVars, accVars, genVars, triangleVars, rotateVars, callVars>>
otherThanTriangle == <<listVars, rayVars, camVars, sceneVars, accVars, genVars, transformVars, rotateVars, callVars>>
otherThanRotate == <<listVars, rayVars, camVars, sceneVars, accVars, genVars, transformVars, triangleVars, callVars>>
otherThanCall == <<listVars, rayVars, camVars, sceneVars, accVars, genVars, transformVars, triangleVars, rotateVars>>

Min(a, b) == IF a < b THEN a ELSE b

(***************************************************************************)
(* Bounds of the model.                                                    *)
(***************************************************************************)
\* Capacity of the medium list (template parameter N, 16 by default).
N == 5
\* Longest sequence of calls made on one medium list.
MaxOps == 4

(***************************************************************************)
(* The medium buffer of the scene: media are designated by their index.    *)
(* Medium 0 is the "outside" medium of priority 0 (main.cpp seeds the      *)
(* camera's list with two copies of it).                                   *)
(***************************************************************************)
Outside == 0
Media == 0 .. 4

\* accessor[medium].priority_
priority_(medium) ==
    CASE medium = 0 -> 0
      [] medium = 1 -> 1
      [] medium = 2 -> 5
      [] medium = 3 -> 10
      [] medium = 4 -> 5

Slots == 0 .. (N - 1)

\* MediumList_t(): n_mediums_{0}, mediums_{} (value-initialised array)
EmptyList == [n_mediums_ |-> 0, mediums_ |-> [s \in Slots |-> 0]]

\* MediumList_t(2, {0, 0, ...}): the list main.cpp gives the camera
SeededList == [n_mediums_ |-> 2, mediums_ |-> [s \in Slots |-> Outside]]

(***************************************************************************)
(* add_to_mediums                                                          *)
(***************************************************************************)
\* for (j = i; j < lim; ++j) mediums_[j + 1] = mediums_[j];
\* the copy runs front to back, each step reading the slot the previous
\* step wrote.
RECURSIVE ShiftRight(_, _, _)
ShiftRight(arr, j, lim) ==
    IF j < lim
    THEN ShiftRight([arr EXCEPT ![j + 1] = arr[j]], j + 1, lim)
    ELSE arr

\* the outer loop taking the front slot whatever the priorities are
FirstNotAboveFront(l, medium, i) == 0

\* the outer loop with < in place of <=
RECURSIVE FirstBelow(_, _, _)
FirstBelow(l, medium, i) ==
    IF i < l.n_mediums_
    THEN IF priority_(l.mediums_[i]) < priority_(medium)
         THEN i
         ELSE FirstBelow(l, medium, i + 1)
    ELSE l.n_mediums_

\* the first i < n_mediums_ with priority_[mediums_[i]] <= priority_[medium],
\* n_mediums_ when the outer loop finds none
RECURSIVE FirstNotAbove(_, _, _)
FirstNotAbove(l, medium, i) ==
    IF i < l.n_mediums_
    THEN IF priority_(l.mediums_[i]) <= priority_(medium)
         THEN i
         ELSE FirstNotAbove(l, medium, i + 1)
    ELSE l.n_mediums_

\* add_to_mediums storing into the last slot of a full list it found no
\* place in
add_to_mediums_overwrite(l, medium) ==
    LET i == FirstNotAbove(l, medium, 0) IN
    IF i < l.n_mediums_
    THEN [n_mediums_ |-> Min(l.n_mediums_ + 1, N),
          mediums_ |-> [ShiftRight(l.mediums_, i, Min(l.n_mediums_, N - 1))
                            EXCEPT ![i] = medium]]
    ELSE [n_mediums_ |-> Min(l.n_mediums_ + 1, N),
          mediums_ |-> [l.mediums_ EXCEPT ![Min(l.n_mediums_, N - 1)] = medium]]

add_to_mediums(l, medium) ==
    LET i == FirstNotAbove(l, medium, 0) IN
    IF i < l.n_mediums_
    THEN [n_mediums_ |-> Min(l.n_mediums_ + 1, N),
          mediums_ |-> [ShiftRight(l.mediums_, i, Min(l.n_mediums_, N - 1))
                            EXCEPT ![i] = medium]]
    ELSE IF l.n_mediums_ < N
         THEN [n_mediums_ |-> l.n_mediums_ + 1,
               mediums_ |-> [l.mediums_ EXCEPT ![l.n_mediums_] = medium]]
         ELSE l

\* the indices of mediums_ add_to_mediums reads or writes: the outer loop's
\* mediums_[i], the shift's mediums_[j] and mediums_[j + 1], and the store
AddSlots(l, medium) ==
    LET i == FirstNotAbove(l, medium, 0)
        lim == Min(l.n_mediums_, N - 1)
    IN IF i < l.n_mediums_
       THEN (0 .. i) \cup {j : j \in i .. (lim - 1)} \cup {j + 1 : j \in i .. (lim - 1)}
       ELSE (0 .. (l.n_mediums_ - 1))
                \cup (IF l.n_mediums_ < N THEN {l.n_mediums_} ELSE {})

(***************************************************************************)
(* remove_from_mediums                                                     *)
(***************************************************************************)
\* for (j = i; j < n_mediums_ - 1; ++j) mediums_[j] = mediums_[j + 1];
RECURSIVE ShiftLeft(_, _, _)
ShiftLeft(arr, j, lim) ==
    IF j < lim
    THEN ShiftLeft([arr EXCEPT ![j] = arr[j + 1]], j + 1, lim)
    ELSE arr

\* the first i < n_mediums_ with mediums_[i] == medium, n_mediums_ when none
RECURSIVE FirstEqual(_, _, _)
FirstEqual(l, medium, i) ==
    IF i < l.n_mediums_
    THEN IF l.mediums_[i] = medium THEN i ELSE FirstEqual(l, medium, i + 1)
    ELSE l.n_mediums_

\* remove_from_mediums forgetting the last entry instead of the one found
remove_last_from_mediums(l, medium) ==
    LET i == FirstEqual(l, medium, 0) IN
    IF i < l.n_mediums_
    THEN [n_mediums_ |-> l.n_mediums_ - 1, mediums_ |-> l.mediums_]
    ELSE l

remove_from_mediums(l, medium) ==
    LET i == FirstEqual(l, medium, 0) IN
    IF i < l.n_mediums_
    THEN [n_mediums_ |-> l.n_mediums_ - 1,
          mediums_ |-> ShiftLeft(l.mediums_, i, l.n_mediums_ - 1)]
    ELSE l

\* the indices of mediums_ remove_from_mediums reads or writes
RemoveSlots(l, medium) ==
    LET i == FirstEqual(l, medium, 0) IN
    IF i < l.n_mediums_
    THEN (0 .. i) \cup {j : j \in i .. (l.n_mediums_ - 2)}
                  \cup {j + 1 : j \in i .. (l.n_mediums_ - 2)}
    ELSE 0 .. (l.n_mediums_ - 1)

(***************************************************************************)
(* The medium list as a state machine: a caller constructs a list, empty,  *)
(* seeded with two outside media, or from a sorted array, and then adds    *)
(* and removes media.                                                      *)
(***************************************************************************)
\* MediumList_t(n_mediums, mediums) from sorted arrays: a full list of
\* distinct priorities, a full list ending in a lower priority, and a list
\* with one free slot
SortedLists ==
    {[n_mediums_ |-> N,
      mediums_ |-> [s \in Slots |-> IF s < N - 3 THEN 3 ELSE N - 1 - s]],
     [n_mediums_ |-> N,
      mediums_ |-> [s \in Slots |-> IF s < N - 1 THEN 3 ELSE 2]],
     [n_mediums_ |-> N - 1,
      mediums_ |-> [s \in Slots |-> IF s < N - 3 THEN 2 ELSE IF s = N - 3 THEN 4 ELSE 1]]}

ListStart ==
    /\ seeded \in BOOLEAN
    /\ start \in IF seeded THEN {SeededList} ELSE {EmptyList} \cup SortedLists
    /\ medium_list = start
    /\ lastop = [op |-> "none", medium |-> 0, before |-> start, slots |-> {}]
    /\ adds = <<>>
    /\ pending = [m \in Media |-> 0]
    /\ nops = 0
    /\ clean = TRUE

Add(medium) ==
    /\ nops < MaxOps
    /\ medium_list' = add_to_mediums(medium_list, medium)
    /\ adds' = Append(adds, medium)
    /\ pending' = [pending EXCEPT ![medium] = @ + 1]
    /\ nops' = nops + 1
    /\ clean' = (clean /\ medium_list'.n_mediums_ < N)
    /\ lastop' = [op |-> "add", medium |-> medium, before |-> medium_list,
                slots |-> AddSlots(medium_list, medium)]
    /\ UNCHANGED <<seeded, start, otherThanList>>

Remove(medium) ==
    /\ nops < MaxOps
    /\ medium_list' = remove_from_mediums(medium_list, medium)
    /\ pending' = [pending EXCEPT ![medium] = IF @ > 0 THEN @ - 1 ELSE 0]
    /\ nops' = nops + 1
    /\ clean' = (clean /\ pending[medium] > 0)
    /\ lastop' = [op |-> "remove", medium |-> medium, before |-> medium_list,
                slots |-> RemoveSlots(medium_list, medium)]
    /\ UNCHANGED <<seeded, adds, start, otherThanList>>

ListNext ==
    \/ \E medium \in Media : Add(medium)
    \/ \E medium \in Media : Remove(medium)

\* the active entries of the list, front first
Active(l) == [i \in 1 .. l.n_mediums_ |-> l.mediums_[i - 1]]

Count(s, x) == Cardinality({i \in DOMAIN s : s[i] = x})

SameMultiset(s, t) == \A m \in Media : Count(s, m) = Count(t, m)

Descending(s) ==
    \A i \in DOMAIN s : \A j \in DOMAIN s :
        i < j => priority_(s[i]) >= priority_(s[j])

NoRemoveYet == nops = Len(adds)

\* C1: on an initially empty list, after at most N add_to_mediums calls and
\* no remove, the list holds exactly the added media (same multiset,
\* n_mediums_ = number of adds) in descending priority order, whatever the
\* insertion order.
C1_AddsKeepMultisetSorted ==
    (start = EmptyList /\ NoRemoveYet /\ Len(adds) <= N) =>
        /\ medium_list.n_mediums_ = Len(adds)
        /\ SameMultiset(Active(medium_list), adds)
        /\ Descending(Active(medium_list))

\* C2: a list seeded with two outside media, after adds of other media and
\* removes of media with a pending add, with fewer than N entries at all
\* times, is never empty and still contains the outside medium.
C2_OutsideMediumStays ==
    (seeded /\ clean /\ pending[Outside] = 0 /\ Count(adds, Outside) = 0) =>
        /\ medium_list.n_mediums_ >= 1
        /\ Count(Active(medium_list), Outside) >= 1

(***************************************************************************)
(* Rays, shapes, materials, media and the skybox as raycast sees them.     *)
(* Vectors are modelled by one channel: positions and directions by small  *)
(* indices, colours and masks by a grey level in hundredths.               *)
(***************************************************************************)
\* Largest max_bounces argument tried.
MaxBounces == 2
\* Number of shapes in the scene's shape buffer.
NShapes == 2

Points == 0 .. 1
Dirs == 0 .. 1
\* mask grey levels in hundredths: 0, just below, just above the cutoff, 1
MaskVals == {0, 5, 6, 100}

\* Vec3::magnitudeSquared of the grey vector (m, m, m)/100, in 1/10000
magnitudeSquared(m) == 3 * m * m

\* constexpr T minimum_mask = 0.01, in 1/10000
minimum_mask == 100

\* std::numeric_limits<T>::max(), above every distance of the model
T_max == 1000

Shapes == 0 .. (NShapes - 1)

\* shape.material_: index into the material buffer
material_(shape) == shape % 2

\* Diffuse_t::emission_ of the material, as a grey level
emission_(material) == 2 * material

\* skybox.get(direction)
skybox_get(direction) == 1 + direction

\* the medium lists a caller gives a ray: default-constructed, seeded, or in
\* one more medium
RayLists == {EmptyList, SeededList} \cup {add_to_mediums(SeededList, m) : m \in {1, 2}}

\* Ray_t(origin, direction, colour, mask, medium_list): dist_(0), time_(1)
Ray_t(origin, direction, colour, mask, list) ==
    [origin_ |-> origin, direction_ |-> direction, colour_ |-> colour,
     mask_ |-> mask, dist_ |-> 0, medium_list_ |-> list, time_ |-> 1]

(***************************************************************************)
(* Triangle_t::intersection: what one test returns and what it has written *)
(* to its out-parameters t and uv when it returns.                         *)
(***************************************************************************)
Test(ok, wu, u, wv, v, wt, t) ==
    [ok |-> ok, wu |-> wu, u |-> u, wv |-> wv, v |-> v, wt |-> wt, t |-> t]

TestOutcomes ==
    { Test(FALSE, FALSE, 0, FALSE, 0, FALSE, 0),  \* |det| too small: nothing written
      Test(FALSE, TRUE, 2, FALSE, 0, FALSE, 0),   \* u out of [0, 1]: uv[0] written
      Test(FALSE, TRUE, 0, TRUE, 2, FALSE, 0),    \* v out of range: uv written
      Test(FALSE, TRUE, 0, TRUE, 0, TRUE, -1),    \* t < 0: uv and t written
      Test(TRUE, TRUE, 0, TRUE, 0, TRUE, 1),      \* hit at t = 1, uv = (0, 0)
      Test(TRUE, TRUE, 1, TRUE, 0, TRUE, 2) }     \* hit at t = 2, uv = (1, 0)

NoTests == [s \in Shapes |-> Test(FALSE, FALSE, 0, FALSE, 0, FALSE, 0)]

(***************************************************************************)
(* intersect_brute                                                         *)
(***************************************************************************)
\* the loop over the shapes: shape.intersection(ray, t_temp, uv_temp) writes
\* the temporaries, and a success with t_temp < t is kept
RECURSIVE BruteLoop(_, _, _)
BruteLoop(tests, s, acc) ==
    IF s >= NShapes
    THEN acc
    ELSE LET o == tests[s]
             t_temp == IF o.wt THEN o.t ELSE acc.t_temp
             uv_temp == <<IF o.wu THEN o.u ELSE acc.uv_temp[1],
                          IF o.wv THEN o.v ELSE acc.uv_temp[2]>>
             keep == o.ok /\ t_temp < acc.t
         IN BruteLoop(tests, s + 1,
                [t_temp |-> t_temp, uv_temp |-> uv_temp,
                 has_value |-> (keep \/ acc.has_value),
                 assigned |-> IF keep THEN s ELSE acc.assigned,
                 uv |-> IF keep THEN uv_temp ELSE acc.uv,
                 t |-> IF keep THEN t_temp ELSE acc.t])

\* t_temp = max, uv_temp{}, t = max, hit_obj{}; uv is the caller's uv{}
intersect_brute(tests) ==
    BruteLoop(tests, 0,
        [t_temp |-> T_max, uv_temp |-> <<0, 0>>, has_value |-> FALSE,
         assigned |-> 0, uv |-> <<0, 0>>, t |-> T_max])

\* hit_obj = shape binds the returned reference to the loop's local copy
\* "auto shape", whose lifetime ends with the iteration. Reading it after
\* the loop is undefined: the storage holds the shape it was bound to or
\* the copy made by the last iteration.
HitObjReads(assigned) == {assigned, NShapes - 1}

NoHit == [has_value |-> FALSE, shape |-> 0, assigned |-> 0, t |-> 0,
          uv |-> <<0, 0>>, tests |-> NoTests]

(***************************************************************************)
(* Medium scatter and material bounce.                                     *)
(***************************************************************************)
\* D::scatter(ray): the result and the ray it leaves. Medium 1 always
\* scatters, medium 2 sometimes does, the others are NonAbsorber_t.
ScatterOutcomes(medium, r) ==
    LET redirected == {[res |-> TRUE, ray |-> [r EXCEPT !.direction_ = d]] : d \in Dirs}
        passed == {[res |-> FALSE, ray |-> r]}
    IN CASE medium = 1 -> redirected
         [] medium = 2 -> redirected \cup passed
         [] OTHER -> passed

\* Diffuse_t::bounce(rng, uv, hit_obj, ray): the rays it can leave
BounceOutcomes(material, r) ==
    { [r EXCEPT !.origin_ = (r.origin_ + r.direction_ * r.dist_) % 2,
                !.direction_ = newdir,
                !.colour_ = r.colour_ + r.mask_ * emission_(material),
                !.mask_ = m] :
        newdir \in Dirs, m \in {x \in MaskVals : x <= r.mask_} }

Event(e, arg, res, r) == [e |-> e, arg |-> arg, res |-> res, ray |-> r]

(***************************************************************************)
(* raycast, one action per step of its loop.                               *)
(***************************************************************************)
RayStart ==
    /\ ray \in {Ray_t(0, d, 0, m, l) : d \in Dirs, m \in {5, 100}, l \in RayLists}
    /\ max_bounces \in 0 .. MaxBounces
    /\ bounces = 0
    /\ pc = "loop"
    /\ hit = NoHit
    /\ ray0 = ray
    /\ log = <<>>

\* LoopCheck with the bounce test off by one (bounces <= max_bounces)
LoopCheckInclusive ==
    /\ pc = "loop"
    /\ pc' = IF bounces <= max_bounces /\ magnitudeSquared(ray.mask_) > minimum_mask
             THEN "intersect"
             ELSE "done"
    /\ UNCHANGED <<ray, max_bounces, bounces, hit, ray0, log, otherThanRay>>

\* LoopCheck without the test of the mask
LoopCheckNoMask ==
    /\ pc = "loop"
    /\ pc' = IF bounces < max_bounces THEN "intersect" ELSE "done"
    /\ UNCHANGED <<ray, max_bounces, bounces, hit, ray0, log, otherThanRay>>

\* while ((bounces < max_bounces) && (ray.mask_.magnitudeSquared() > minimum_mask))
LoopCheck ==
    /\ pc = "loop"
    /\ pc' = IF bounces < max_bounces /\ magnitudeSquared(ray.mask_) > minimum_mask
             THEN "intersect"
             ELSE "done"
    /\ UNCHANGED <<ray, max_bounces, bounces, hit, ray0, log, otherThanRay>>

\* T t{}; uv{}; hit_obj = intersect_brute(ray, t, uv)
IntersectStep ==
    /\ pc = "intersect"
    /\ \E tests \in [Shapes -> TestOutcomes] :
         LET res == intersect_brute(tests) IN
         \E read \in HitObjReads(res.assigned) :
            /\ hit' = [has_value |-> res.has_value, shape |-> read,
                       assigned |-> res.assigned, t |-> res.t, uv |-> res.uv,
                       tests |-> tests]
            /\ log' = Append(log, Event("intersect", 0, res.has_value, ray))
    /\ pc' = "hit"
    /\ UNCHANGED <<ray, max_bounces, bounces, ray0, otherThanRay>>

\* SkyboxStep without its return: the loop goes on after the skybox
SkyboxStepNoReturn ==
    /\ pc = "hit"
    /\ ~hit.has_value
    /\ ray' = [ray EXCEPT !.colour_ = @ + ray.mask_ * skybox_get(ray.direction_)]
    /\ log' = Append(log, Event("skybox", ray.direction_, FALSE, ray))
    /\ pc' = "loop"
    /\ hit' = NoHit
    /\ UNCHANGED <<max_bounces, bounces, ray0, otherThanRay>>

\* if (!hit_obj) { ray.colour_ += ray.mask_ * skybox.get(ray.direction_); return; }
SkyboxStep ==
    /\ pc = "hit"
    /\ ~hit.has_value
    /\ ray' = [ray EXCEPT !.colour_ = @ + ray.mask_ * skybox_get(ray.direction_)]
    /\ log' = Append(log, Event("skybox", ray.direction_, FALSE, ray))
    /\ pc' = "done"
    /\ hit' = NoHit
    /\ UNCHANGED <<max_bounces, bounces, ray0, otherThanRay>>

\* HitStep without ++bounces
HitStepNoCount ==
    /\ pc = "hit"
    /\ hit.has_value
    /\ ray' = [ray EXCEPT !.dist_ = hit.t]
    /\ hit' = [hit EXCEPT !.tests = NoTests]
    /\ pc' = "scatter"
    /\ UNCHANGED <<max_bounces, bounces, ray0, log, otherThanRay>>

\* ray.dist_ = t; ++bounces;
HitStep ==
    /\ pc = "hit"
    /\ hit.has_value
    /\ ray' = [ray EXCEPT !.dist_ = hit.t]
    /\ bounces' = bounces + 1
    /\ hit' = [hit EXCEPT !.tests = NoTests]
    /\ pc' = "scatter"
    /\ UNCHANGED <<max_bounces, ray0, log, otherThanRay>>

\* ScatterStep whose result is ignored: the material bounce always follows
ScatterStepAlwaysBounce ==
    /\ pc = "scatter"
    /\ LET medium == ray.medium_list_.mediums_[0] IN
       \E o \in ScatterOutcomes(medium, ray) :
          /\ ray' = o.ray
          /\ log' = Append(log, Event("scatter", medium, o.res, ray))
          /\ pc' = "bounce"
    /\ UNCHANGED <<max_bounces, bounces, hit, ray0, otherThanRay>>

\* if (!mediums_[ray.medium_list_.mediums_[0]].scatter(ray)) { ... }
ScatterStep ==
    /\ pc = "scatter"
    /\ LET medium == ray.medium_list_.mediums_[0] IN
       \E o \in ScatterOutcomes(medium, ray) :
          /\ ray' = o.ray
          /\ log' = Append(log, Event("scatter", medium, o.res, ray))
          /\ pc' = IF o.res THEN "loop" ELSE "bounce"
    /\ UNCHANGED <<max_bounces, bounces, hit, ray0, otherThanRay>>

\* materials_[hit_obj->get().material_].bounce(random_generator, uv, hit_obj->get(), ray)
BounceStep ==
    /\ pc = "bounce"
    /\ LET material == material_(hit.shape) IN
       \E r \in BounceOutcomes(material, ray) :
          /\ ray' = r
          /\ log' = Append(log, Event("bounce", material, FALSE, ray))
    /\ pc' = "loop"
    /\ UNCHANGED <<max_bounces, bounces, hit, ray0, otherThanRay>>

RayNext ==
    \/ LoopCheck
    \/ IntersectStep
    \/ SkyboxStep
    \/ HitStep
    \/ ScatterStep
    \/ BounceStep

(***************************************************************************)
(* The spherical camera, its image and the per-pixel random generators.    *)
(* Image colours are grey levels in units of 1/ColourUnit; the up vector   *)
(* and the field of view are small indices and integer pairs.              *)
(***************************************************************************)
\* Image width and height in pixels.
SizeX == 2
SizeY == 1
\* Longest sequence of camera method calls.
MaxCalls == 4
\* Largest field of view component zoom(factor) is tried up to.
MaxFov == 8
\* Resolution of image colours: 1.0 is ColourUnit.
ColourUnit == 4
\* Number of states of one random generator.
RngPeriod == 4

\* sycl::range<2>{size_x, size_y}: one slot, and one work item, per pixel
Pixels == (0 .. (SizeX - 1)) \X (0 .. (SizeY - 1))

Ups == 0 .. 1
Fovs == {<<1, 2>>, <<2, 1>>}
Factors == {2}
Gammas == {1, 2}

\* subpix_: subpixels per pixel, <<vertical, horizontal>>
subpix_ == <<1, 2>>

\* tot_subpix = subpix_[0] * subpix_[1]
tot_subpix == subpix_[1] * subpix_[2]

\* bit_multiplier = 2^16 - 1
bit_multiplier == 65535

\* what the camera looks at: no shape at all in front of a flat skybox of
\* the given grey level, or a lit scene. In a lit scene raycast reads the
\* reference intersect_brute returns; stale tells whether the build makes
\* that read yield the last shape of the list instead of the nearest one.
Scenes ==
    {[kind |-> "empty", background |-> b, stale |-> FALSE] :
        b \in {1, ColourUnit, ColourUnit * ColourUnit}}
        \cup {[kind |-> "lit", background |-> 0, stale |-> b] : b \in BOOLEAN}

\* R(seed + WIitem.get_linear_id()) for every pixel
Seeded(seed) == [p \in Pixels |-> (seed + p[1] * SizeY + p[2]) % RngPeriod]

\* unif(rng): the value drawn (which half of the cell) and the state left
Draw(r) == r % 2
Advance(r) == (r + 1) % RngPeriod

\* "Copy of members": what the kernel lambda captures by value
Capture ==
    [up |-> up_, fov |-> fov_, medium_list |-> medium_list_, scene |-> scene]

\* one turn of the subpixel loop: two jitter draws, a ray built from the
\* captured origin and medium list, raycast, and the ray's colour
SubpixelSample(k, p, subindex, r) ==
    LET jitter_y == Draw(r)
        r1 == Advance(r)
        jitter_x == Draw(r1)
        r2 == Advance(r1)
    IN IF k.scene.kind = "empty"
       THEN [colour |-> k.scene.background, rng |-> r2]
       ELSE [colour |-> 2 * ((p[1] + p[2] + subindex + jitter_y + 2 * jitter_x
                                + Draw(r2) + k.up + k.fov[1] + 2 * k.fov[2]
                                + (IF k.scene.stale THEN 1 ELSE 0)) % 3),
             rng |-> Advance(r2)]

\* the kernel body for pixel p run on its own: col / tot_subpix and the
\* generator state it leaves
RECURSIVE SubpixelLoop(_, _, _, _, _)
SubpixelLoop(k, p, subindex, col, r) ==
    IF subindex >= tot_subpix
    THEN [col |-> col \div tot_subpix, rng |-> r]
    ELSE LET s == SubpixelSample(k, p, subindex, r)
         IN SubpixelLoop(k, p, subindex + 1, col + s.colour, s.rng)

WorkItem(k, p, r) == SubpixelLoop(k, p, 0, 0, r)

\* the image and generators after every work item has run
RaytraceResult(k, img, rng) ==
    [img |-> [p \in Pixels |-> img[p] + WorkItem(k, p, rng[p]).col],
     rng |-> [p \in Pixels |-> WorkItem(k, p, rng[p]).rng]]

\* the buffer slots a work item uses: rng_[WIid], unif_[WIid], img_[WIid]
RngPos(p) == p

\* a work item adding its colour to one fixed slot of the image
ImagePosShared(p) == <<0, 0>>

ImagePos(p) == p

\* SimpleImage_t(size_x, size_y): updates_(0), img_ filled with Vec3()
NewImage == [updates_ |-> 0, img_ |-> [p \in Pixels |-> 0]]

IdleItems ==
    [p \in Pixels |->
        [pc |-> "idle", subindex |-> 0, col |-> 0, tmp |-> 0, list |-> EmptyList]]

RECURSIVE Pow(_, _)
Pow(x, e) == IF e <= 0 THEN 1 ELSE x * Pow(x, e - 1)

\* write without the division by updates_
WritePixelNoAverage(acc, updates, gammaind) ==
    LET num == Pow(acc, gammaind)
        den == Pow(ColourUnit, gammaind)
    IN IF num >= den THEN bit_multiplier
       ELSE IF num <= 0 THEN 0
       ELSE (2 * bit_multiplier * num + den) \div (2 * den)

\* SimpleImage_t::write(filename, gammaind) for one pixel, updates > 0:
\* colour = acc * (1 / updates); pow_inplace(gammaind); clamp(0, 1);
\* colour *= bit_multiplier; lround
WritePixel(acc, updates, gammaind) ==
    LET num == Pow(acc, gammaind)
        den == Pow(ColourUnit * updates, gammaind)
    IN IF num >= den THEN bit_multiplier
       ELSE IF num <= 0 THEN 0
       ELSE (2 * bit_multiplier * num + den) \div (2 * den)

\* the camera right after its constructor
CamStart ==
    /\ up_ = 0
    /\ up_buffer_ = up_
    /\ fov_ = <<1, 2>>
    /\ fov_buffer_ = fov_
    /\ medium_list_ = SeededList
    /\ gammaind_ \in Gammas
    /\ scene \in Scenes
    /\ image_ = NewImage
    /\ rng_ \in {Seeded(seed) : seed \in 0 .. (RngPeriod - 1)}
    /\ written = [p \in Pixels |-> 0]
    /\ kernel = Capture
    /\ wi = IdleItems
    /\ touched = [p \in Pixels |-> {}]
    /\ submitted = [img |-> image_.img_, rng |-> rng_, medium_list |-> medium_list_]
    /\ lastcall = "constructor"
    /\ ncalls = 0
    /\ ntraces = 0
    /\ contribs = [p \in Pixels |-> {}]
    /\ used = [up |-> up_, fov |-> fov_]

Called(name) ==
    /\ ncalls < MaxCalls
    /\ ncalls' = ncalls + 1
    /\ lastcall' = name
    /\ UNCHANGED <<otherThanCam, medium_list_, gammaind_, scene, kernel, wi,
                   touched, submitted>>

\* setUp writing the up vector in use
SetUpDirect(new_up) ==
    /\ Called("setUp")
    /\ up_' = new_up
    /\ up_buffer_' = new_up
    /\ UNCHANGED <<fov_, fov_buffer_, image_, rng_, written, ntraces, contribs, used>>

\* setUp(new_up): up_buffer_ = new_up
SetUp(new_up) ==
    /\ Called("setUp")
    /\ up_buffer_' = new_up
    /\ UNCHANGED <<up_, fov_, fov_buffer_, image_, rng_, written, ntraces, contribs, used>>

\* zoom(factor): fov_buffer_ = {fov_[0] * factor, fov_[1] * factor}
ZoomFactor(factor) ==
    /\ fov_[1] * factor <= MaxFov
    /\ fov_[2] * factor <= MaxFov
    /\ Called("zoom")
    /\ fov_buffer_' = <<fov_[1] * factor, fov_[2] * factor>>
    /\ UNCHANGED <<up_, up_buffer_, fov_, image_, rng_, written, ntraces, contribs, used>>

\* zoom(fov): fov_buffer_ = fov
ZoomFov(fov) ==
    /\ Called("zoom")
    /\ fov_buffer_' = fov
    /\ UNCHANGED <<up_, up_buffer_, fov_, image_, rng_, written, ntraces, contribs, used>>

\* update(): up_ = up_buffer_; fov_ = fov_buffer_ (origin_ and direction_
\* are recomputed from the unchanged transformation_)
Update ==
    /\ Called("update")
    /\ up_' = up_buffer_
    /\ fov_' = fov_buffer_
    /\ UNCHANGED <<up_buffer_, fov_buffer_, image_, rng_, written, ntraces, contribs, used>>

\* raytrace(queue, random_generator, scene) as a whole: image_.update(),
\* then the dispatch of one work item per pixel
raytrace ==
    /\ LET res == RaytraceResult(Capture, image_.img_, rng_) IN
          /\ image_' = [updates_ |-> image_.updates_ + 1, img_ |-> res.img]
          /\ rng_' = res.rng
          /\ contribs' = [p \in Pixels |-> contribs[p] \cup {res.img[p] - image_.img_[p]}]
    /\ ntraces' = ntraces + 1
    /\ used' = [up |-> Capture.up, fov |-> Capture.fov]
    /\ UNCHANGED <<up_, up_buffer_, fov_, fov_buffer_, written>>

\* raytrace called by the user of the camera
Raytrace ==
    /\ Called("raytrace")
    /\ raytrace

\* write(): image_.write(filename_, gammaind_). With updates_ = 0 the
\* multiplier 1 / updates_ is infinite and every pixel is 0 * inf = NaN,
\* whose conversion to unsigned short is unspecified: one value for all.
write ==
    /\ IF image_.updates_ > 0
       THEN written' = [p \in Pixels |-> WritePixel(image_.img_[p], image_.updates_, gammaind_)]
       ELSE \E v \in {0, bit_multiplier} : written' = [p \in Pixels |-> v]
    /\ UNCHANGED <<up_, up_buffer_, fov_, fov_buffer_, image_, rng_, ntraces, contribs, used>>

\* write called by the user of the camera
Write ==
    /\ Called("write")
    /\ write

\* reset(): image_.reset(): updates_ = 0 and img_ filled with Vec3()
Reset ==
    /\ Called("reset")
    /\ image_' = NewImage
    /\ ntraces' = 0
    /\ contribs' = [p \in Pixels |-> {}]
    /\ UNCHANGED <<up_, up_buffer_, fov_, fov_buffer_, rng_, written, used>>

(***************************************************************************)
(* accumulateWrite(queue, random_generator, scene, n_iter, interval), one  *)
(* action per statement of its loop that has an effect.                    *)
(***************************************************************************)
\* Largest n_iter and largest interval an accumulateWrite call is given.
MaxIter == 4
MaxInterval == 5

\* if (n % interval == 0), tested one iteration late
WriteDueLate(n, interval) == n > 1 /\ (n - 1) % interval = 0

\* if (n % interval == 0)
WriteDue(n, interval) == n % interval = 0

\* accumulateWrite is called on a constructed camera: unsigned int n = 0
AccStart ==
    /\ accum \in [pc : {"while"}, n : {0}, n_iter : 0 .. MaxIter, interval : 1 .. MaxInterval]
    /\ acclog = <<>>

\* a camera method called from accumulateWrite
AccCalls(name) ==
    /\ ncalls' = ncalls + 1
    /\ lastcall' = name
    /\ acclog' = Append(acclog, [call |-> name, n |-> accum.n])
    /\ UNCHANGED <<otherThanAcc, medium_list_, gammaind_, scene, kernel, wi,
                   touched, submitted>>

\* while (n < n_iter) { ++n;
AccWhile ==
    /\ accum.pc = "while"
    /\ accum' = IF accum.n < accum.n_iter
              THEN [accum EXCEPT !.n = @ + 1, !.pc = "raytrace"]
              ELSE [accum EXCEPT !.pc = "done"]
    /\ UNCHANGED <<otherThanAcc, camVars, acclog>>

\* raytrace(queue, random_generator, scene); if (n % interval == 0)
AccRaytrace ==
    /\ accum.pc = "raytrace"
    /\ AccCalls("raytrace")
    /\ raytrace
    /\ accum' = [accum EXCEPT !.pc = IF WriteDue(accum.n, accum.interval) THEN "write" ELSE "while"]

\* write(); }
AccWrite ==
    /\ accum.pc = "write"
    /\ AccCalls("write")
    /\ write
    /\ accum' = [accum EXCEPT !.pc = "while"]

AccNext ==
    \/ AccWhile
    \/ AccRaytrace
    \/ AccWrite

\* Longest sequence of raytrace dispatches.
MaxDispatches == 2

\* the host side of raytrace: the member copies, image_.update() and
\* queue.submit; the buffers' accessors order a dispatch after the one before
Submit ==
    /\ ncalls < MaxDispatches
    /\ \A p \in Pixels : wi[p].pc \in {"idle", "done"}
    /\ kernel' = Capture
    /\ image_' = [image_ EXCEPT !.updates_ = @ + 1]
    /\ submitted' = [img |-> image_.img_, rng |-> rng_, medium_list |-> medium_list_]
    /\ wi' = [p \in Pixels |-> [IdleItems[p] EXCEPT !.pc = "sample"]]
    /\ touched' = [p \in Pixels |-> {}]
    /\ ncalls' = ncalls + 1
    /\ lastcall' = "raytrace"
    /\ ntraces' = ntraces + 1
    /\ used' = [up |-> Capture.up, fov |-> Capture.fov]
    /\ UNCHANGED <<otherThanCam, up_, up_buffer_, fov_, fov_buffer_, medium_list_,
                   gammaind_, scene, rng_, written, contribs>>

ItemStep ==
    UNCHANGED <<otherThanCam, up_, up_buffer_, fov_, fov_buffer_, medium_list_,
                gammaind_, scene, written, kernel, submitted, lastcall, ncalls,
                ntraces, contribs, used>>

\* one turn of the subpixel loop of work item p, through the reference to
\* its generator; after the last turn col = col / tot_subpix
Sample(p) ==
    /\ wi[p].pc = "sample"
    /\ LET s == SubpixelSample(kernel, p, wi[p].subindex, rng_[RngPos(p)])
           last == wi[p].subindex + 1 >= tot_subpix
           col == wi[p].col + s.colour
       IN /\ rng_' = [rng_ EXCEPT ![RngPos(p)] = s.rng]
          /\ wi' = [wi EXCEPT ![p] = [pc |-> IF last THEN "read" ELSE "sample",
                                       subindex |-> wi[p].subindex + 1,
                                       col |-> IF last THEN col \div tot_subpix ELSE col,
                                       tmp |-> 0,
                                       list |-> kernel.medium_list]]
    /\ touched' = [touched EXCEPT ![p] = @ \cup {<<"rng", RngPos(p)>>}]
    /\ UNCHANGED image_
    /\ ItemStep

\* image_accessor.update(col, WIid): the load of img_[pos] += colour
UpdateRead(p) ==
    /\ wi[p].pc = "read"
    /\ wi' = [wi EXCEPT ![p].pc = "write", ![p].tmp = image_.img_[ImagePos(p)]]
    /\ touched' = [touched EXCEPT ![p] = @ \cup {<<"img", ImagePos(p)>>}]
    /\ UNCHANGED <<image_, rng_>>
    /\ ItemStep

\* image_accessor.update(col, WIid): the store of img_[pos] += colour
UpdateWrite(p) ==
    /\ wi[p].pc = "write"
    /\ image_' = [image_ EXCEPT !.img_[ImagePos(p)] = wi[p].tmp + wi[p].col]
    /\ wi' = [wi EXCEPT ![p].pc = "done"]
    /\ touched' = [touched EXCEPT ![p] = @ \cup {<<"img", ImagePos(p)>>}]
    /\ UNCHANGED rng_
    /\ ItemStep

DispatchNext ==
    \/ Submit
    \/ \E p \in Pixels : Sample(p)
    \/ \E p \in Pixels : UpdateRead(p)
    \/ \E p \in Pixels : UpdateWrite(p)

CamNext ==
    \/ \E new_up \in Ups : SetUp(new_up)
    \/ \E factor \in Factors : ZoomFactor(factor)
    \/ \E fov \in Fovs : ZoomFov(fov)
    \/ Update
    \/ Raytrace
    \/ Write
    \/ Reset

(***************************************************************************)
(* The buffers of the scene: Scene_t::add and Scene_t::remove of a single  *)
(* shape, material or medium. Elements are compared by value; two equal    *)
(* elements are the same number.                                           *)
(***************************************************************************)
\* Longest sequence of add and remove calls on one scene.
MaxSceneOps == 3

Elems == 0 .. 1

\* the spans a scene is constructed from
Spans == {<<>>, <<0, 1, 0>>}

\* std::remove(first, last, value): every element not equal to value is
\* moved to the front in order; end is the past-the-end position of the
\* kept range
RECURSIVE std_remove_loop(_, _, _, _)
std_remove_loop(s, i, out, value) ==
    IF i > Len(s)
    THEN [seq |-> s, end |-> out]
    ELSE IF s[i] = value
         THEN std_remove_loop(s, i + 1, out, value)
         ELSE std_remove_loop([s EXCEPT ![out] = s[i]], i + 1, out + 1, value)

std_remove(s, value) == std_remove_loop(s, 1, 1, value)

\* erase(first, end())
erase(s, first) == SubSeq(s, 1, first - 1)

\* remove(x): host_accessor.erase(std::remove(begin, end, x), end)
Scene_remove(s, x) == erase(std_remove(s, x).seq, std_remove(s, x).end)

\* add(x): a buffer one longer, the old elements copied, x in the last slot
Scene_add(s, x) == Append(s, x)

\* Scene_t(shapes, materials, mediums)
SceneStart ==
    /\ shapes_ \in Spans
    /\ materials_ \in Spans
    /\ mediums_ \in Spans
    /\ scenelast = [op |-> "none", x |-> 0, before |-> <<>>, after |-> <<>>]
    /\ sceneops = 0

SceneCall(op, x, before, after) ==
    /\ sceneops < MaxSceneOps
    /\ sceneops' = sceneops + 1
    /\ scenelast' = [op |-> op, x |-> x, before |-> before, after |-> after]
    /\ UNCHANGED otherThanScene

AddShape(x) ==
    /\ shapes_' = Scene_add(shapes_, x)
    /\ SceneCall("add", x, shapes_, shapes_')
    /\ UNCHANGED <<materials_, mediums_>>

AddMaterial(x) ==
    /\ materials_' = Scene_add(materials_, x)
    /\ SceneCall("add", x, materials_, materials_')
    /\ UNCHANGED <<shapes_, mediums_>>

AddMedium(x) ==
    /\ mediums_' = Scene_add(mediums_, x)
    /\ SceneCall("add", x, mediums_, mediums_')
    /\ UNCHANGED <<shapes_, materials_>>

RemoveShape(x) ==
    /\ shapes_' = Scene_remove(shapes_, x)
    /\ SceneCall("remove", x, shapes_, shapes_')
    /\ UNCHANGED <<materials_, mediums_>>

RemoveMaterial(x) ==
    /\ materials_' = Scene_remove(materials_, x)
    /\ SceneCall("remove", x, materials_, materials_')
    /\ UNCHANGED <<shapes_, mediums_>>

RemoveMedium(x) ==
    /\ mediums_' = Scene_remove(mediums_, x)
    /\ SceneCall("remove", x, mediums_, mediums_')
    /\ UNCHANGED <<shapes_, materials_>>

SceneNext ==
    \/ \E x \in Elems : AddShape(x)
    \/ \E x \in Elems : AddMaterial(x)
    \/ \E x \in Elems : AddMedium(x)
    \/ \E x \in Elems : RemoveShape(x)
    \/ \E x \in Elems : RemoveMaterial(x)
    \/ \E x \in Elems : RemoveMedium(x)

(***************************************************************************)
(* The constructors of RandomGenerator_t: the host one seeds the pixels    *)
(* in a loop, each from its own std::random_device draw; the device one    *)
(* draws once and seeds pixel k with seed + k in a parallel dispatch.      *)
(* A generator keeps its seed modulo SeedSpace.                            *)
(***************************************************************************)
\* Largest size_x and size_y of a generator.
MaxSide == 2

\* number of seeds a generator of type R tells apart
SeedSpace == 2 * MaxSide * MaxSide

\* values std::random_device gives
RdevDraws == {0, 1, SeedSpace - 1}

PixelsOf(size) == (0 .. (size[1] - 1)) \X (0 .. (size[2] - 1))

\* a linear index that is the same for (i, j) and (j, i)
get_linear_id_sum(p, size) == p[1] + p[2]

\* WIitem.get_linear_id() of a sycl::item<2> of range {size_x, size_y}
get_linear_id(p, size) == p[1] * size[2] + p[2]

\* R(value): the seed a generator is constructed with
R(value) == value % SeedSpace

\* the constructor is entered with the buffers allocated; the device one
\* has drawn its seed
GenStart ==
    \E ctor \in {"host", "device"}, size_x \in 1 .. MaxSide, size_y \in 1 .. MaxSide,
       seed \in RdevDraws :
        /\ ctor = "host" => seed = 0
        /\ generator = [ctor |-> ctor, size |-> <<size_x, size_y>>, seed |-> seed,
                        rng_ |-> [p \in PixelsOf(<<size_x, size_y>>) |-> -1]]

\* the pixels the host loops have not reached: i outer, j inner
HostLeft == {p \in DOMAIN generator.rng_ : generator.rng_[p] = -1}

HostNextPixel ==
    CHOOSE p \in HostLeft :
        \A q \in HostLeft : p[1] < q[1] \/ (p[1] = q[1] /\ p[2] <= q[2])

\* rng_accessor[sycl::id<2>{i, j}] = R(rdev());
HostSeed ==
    /\ generator.ctor = "host"
    /\ HostLeft # {}
    /\ \E draw \in RdevDraws :
          generator' = [generator EXCEPT !.rng_[HostNextPixel] = R(draw)]
    /\ UNCHANGED otherThanGen

\* rng_accessor[WIitem] = R(seed + WIitem.get_linear_id());
DeviceSeed(p) ==
    /\ generator.ctor = "device"
    /\ p \in DOMAIN generator.rng_
    /\ generator.rng_[p] = -1
    /\ generator' = [generator EXCEPT
                        !.rng_[p] = R(generator.seed + get_linear_id(p, generator.size))]
    /\ UNCHANGED otherThanGen

GenNext ==
    \/ HostSeed
    \/ \E p \in PixelsOf(<<MaxSide, MaxSide>>) : DeviceSeed(p)

(***************************************************************************)
(* TransformMatrix_t: matrix_ and matrix_inverse_ are arrays of 16 values  *)
(* indexed from 0. The values are integers: angles are whole quarter       *)
(* turns, so that sycl::cos and sycl::sin are exact, and every matrix has  *)
(* determinant 1 or -1, so that the divisions are exact. A quotient that   *)
(* is not a whole number within MaxCoord has no value in the model.        *)
(***************************************************************************)
MaxCoord == 16
MaxTransformCalls == 2

Array(s) == [k \in 0..(Len(s) - 1) |-> s[k + 1]]

Exact == (0 - MaxCoord)..MaxCoord

Over(a, b) == CHOOSE q \in Exact : q * b = a

Angles == 0..3

cos(angle) == Array(<<1, 0, 0 - 1, 0>>)[angle % 4]

sin(angle) == Array(<<0, 1, 0, 0 - 1>>)[angle % 4]

magnitude(v) == CHOOSE m \in 0..MaxCoord : m * m = v[0] * v[0] + v[1] * v[1] + v[2] * v[2]

normalize(v) == Array(<<Over(v[0], magnitude(v)), Over(v[1], magnitude(v)), Over(v[2], magnitude(v))>>)

Cofactors(m) ==
    LET tmp == Array(<<m[10] * m[15], m[14] * m[11], m[6] * m[15], m[14] * m[7], m[6] * m[11], m[10] * m[7], m[2] * m[15], m[14] * m[3], m[2] * m[11], m[10] * m[3], m[2] * m[7], m[6] * m[3]>>)
        tmp2 == Array(<<m[8] * m[13], m[12] * m[9], m[4] * m[13], m[12] * m[5], m[4] * m[9], m[8] * m[5], m[0] * m[13], m[12] * m[1], m[0] * m[9], m[8] * m[1], m[0] * m[5], m[4] * m[1]>>)
    IN  Array(<<
        (tmp[0] * m[5] + tmp[3] * m[9] + tmp[4] * m[13]) - (tmp[1] * m[5] + tmp[2] * m[9] + tmp[5] * m[13]),
        (tmp[1] * m[4] + tmp[2] * m[8] + tmp[5] * m[12]) - (tmp[0] * m[4] + tmp[3] * m[8] + tmp[4] * m[12]),
        (tmp2[0] * m[7] + tmp2[3] * m[11] + tmp2[4] * m[15]) - (tmp2[1] * m[7] + tmp2[2] * m[11] + tmp2[5] * m[15]),
        (tmp2[2] * m[10] + tmp2[5] * m[14] + tmp2[1] * m[6]) - (tmp2[4] * m[14] + tmp2[0] * m[6] + tmp2[3] * m[10]),
        (tmp[1] * m[1] + tmp[6] * m[9] + tmp[9] * m[13]) - (tmp[0] * m[1] + tmp[7] * m[9] + tmp[8] * m[13]),
        (tmp[0] * m[0] + tmp[7] * m[8] + tmp[8] * m[12]) - (tmp[1] * m[0] + tmp[6] * m[8] + tmp[9] * m[12]),
        (tmp2[1] * m[3] + tmp2[6] * m[11] + tmp2[9] * m[15]) - (tmp2[0] * m[3] + tmp2[7] * m[11] + tmp2[8] * m[15]),
        (tmp2[8] * m[14] + tmp2[0] * m[2] + tmp2[7] * m[10]) - (tmp2[6] * m[10] + tmp2[9] * m[14] + tmp2[1] * m[2]),
        (tmp[2] * m[1] + tmp[7] * m[5] + tmp[10] * m[13]) - (tmp[3] * m[1] + tmp[6] * m[5] + tmp[11] * m[13]),
        (tmp[3] * m[0] + tmp[6] * m[4] + tmp[11] * m[12]) - (tmp[2] * m[0] + tmp[7] * m[4] + tmp[10] * m[12]),
        (tmp2[2] * m[3] + tmp2[7] * m[7] + tmp2[10] * m[15]) - (tmp2[3] * m[3] + tmp2[6] * m[7] + tmp2[11] * m[15]),
        (tmp2[6] * m[6] + tmp2[11] * m[14] + tmp2[3] * m[2]) - (tmp2[10] * m[14] + tmp2[2] * m[2] + tmp2[7] * m[6]),
        (tmp[5] * m[1] + tmp[8] * m[5] + tmp[11] * m[9]) - (tmp[4] * m[1] + tmp[9] * m[5] + tmp[10] * m[9]),
        (tmp[4] * m[0] + tmp[9] * m[4] + tmp[10] * m[8]) - (tmp[5] * m[0] + tmp[8] * m[4] + tmp[11] * m[8]),
        (tmp2[5] * m[3] + tmp2[8] * m[7] + tmp2[11] * m[11]) - (tmp2[4] * m[3] + tmp2[9] * m[7] + tmp2[10] * m[11]),
        (tmp2[10] * m[10] + tmp2[4] * m[2] + tmp2[9] * m[6]) - (tmp2[8] * m[6] + tmp2[11] * m[10] + tmp2[5] * m[2])
        >>)

buildInverse(t) ==
    LET inverse == Cofactors(t.matrix_)
        det == Over(1, t.matrix_[0] * inverse[0] + t.matrix_[4] * inverse[4]
                       + t.matrix_[8] * inverse[8] + t.matrix_[12] * inverse[12])
    IN  [t EXCEPT !.matrix_inverse_ = [k \in 0..15 |-> inverse[k] * det]]

TransformMatrix_t(values) ==
    buildInverse([matrix_ |-> values, matrix_inverse_ |-> values])

Identity == Array(<<1, 0, 0, 0, 0, 1, 0, 0, 0, 0, 1, 0, 0, 0, 0, 1>>)

Multiply(matrix, other) ==
    [k \in 0..15 |->
        LET j == k \div 4
            i == k % 4
        IN  matrix[4 * j] * other[i] + matrix[4 * j + 1] * other[4 + i] + matrix[4 * j + 2] * other[8 + i] + matrix[4 * j + 3] * other[12 + i]]

(***************************************************************************)
(* A TransformMatrix_t in the hands of a caller: it is constructed, from   *)
(* nothing or from 16 values, and then receives mutating calls.            *)
(***************************************************************************)
Values ==
    { Identity,
      Array(<<0, 1, 0, 0, 1, 0, 0, 0, 0, 0, 1, 0, 1, 0, 2, 1>>),
      Array(<<1, 0, 0, 1, 0, 1, 0, 0, 0, 0, 0 - 1, 0, 0, 0, 0, 1>>) }

Axes == { Array(<<1, 0, 0>>), Array(<<0, 1, 0>>), Array(<<0, 0, 2>>) }

Translations == { Array(<<1, 0, 0>>), Array(<<0, 0 - 2, 1>>) }

ScaleVecs == { Array(<<0 - 1, 1, 1>>), Array(<<1, 0 - 1, 0 - 1>>) }

ScaleFacs == { 1, 0 - 1 }

TransformStart ==
    /\ transform_matrix \in {TransformMatrix_t(Identity)} \cup {TransformMatrix_t(values) : values \in Values}
    /\ tcalls = [n |-> 0, last |-> "TransformMatrix_t"]

TransformCall(name, t) ==
    /\ tcalls.n < MaxTransformCalls
    /\ transform_matrix' = t
    /\ tcalls' = [n |-> tcalls.n + 1, last |-> name]
    /\ UNCHANGED otherThanTransform

rotateXAxis ==
    \E angle \in Angles :
        TransformCall("rotateXAxis",
            LET t == transform_matrix
            IN
            LET cosine == cos(angle)
                sine == sin(angle)
                other == Array(<<1, 0, 0, 0, 0, cosine, sine, 0, 0, 0 - sine, cosine, 0, 0, 0, 0, 1>>)
            IN  buildInverse([t EXCEPT !.matrix_ = Multiply(t.matrix_, other)]))

rotateYAxis ==
    \E angle \in Angles :
        TransformCall("rotateYAxis",
            LET t == transform_matrix
            IN
            LET cosine == cos(angle)
                sine == sin(angle)
                other == Array(<<cosine, 0, 0 - sine, 0, 0, 1, 0, 0, sine, 0, cosine, 0, 0, 0, 0, 1>>)
            IN  buildInverse([t EXCEPT !.matrix_ = Multiply(t.matrix_, other)]))

rotateZAxis_stale(t, angle) ==
    LET cosine == cos(angle)
        sine == sin(angle)
        other == Array(<<cosine, sine, 0, 0, 0 - sine, cosine, 0, 0, 0, 0, 1, 0, 0, 0, 0, 1>>)
    IN  [t EXCEPT !.matrix_ = Multiply(t.matrix_, other)]

rotateZAxis(t, angle) ==
    LET cosine == cos(angle)
        sine == sin(angle)
        other == Array(<<cosine, sine, 0, 0, 0 - sine, cosine, 0, 0, 0, 0, 1, 0, 0, 0, 0, 1>>)
    IN  buildInverse([t EXCEPT !.matrix_ = Multiply(t.matrix_, other)])

rotateX ==
    \E angle \in Angles :
        TransformCall("rotateX",
            LET t == transform_matrix
            IN
            LET cosine == cos(angle)
                sine == sin(angle)
                matrix_ == t.matrix_
                other == Array(<<1, 0, 0, 0, 0, cosine, sine, 0, 0, 0 - sine, cosine, 0,
                                 0,
                                 matrix_[13] - matrix_[13] * cosine + matrix_[14] * sine,
                                 matrix_[14] - matrix_[14] * cosine - matrix_[13] * sine,
                                 1>>)
            IN  buildInverse([t EXCEPT !.matrix_ = Multiply(t.matrix_, other)]))

rotateY ==
    \E angle \in Angles :
        TransformCall("rotateY",
            LET t == transform_matrix
            IN
            LET cosine == cos(angle)
                sine == sin(angle)
                matrix_ == t.matrix_
                other == Array(<<cosine, 0, 0 - sine, 0, 0, 1, 0, 0, sine, 0, cosine, 0,
                                 matrix_[12] - matrix_[12] * cosine - matrix_[14] * sine,
                                 0,
                                 matrix_[14] - matrix_[14] * cosine + matrix_[12] * sine,
                                 1>>)
            IN  buildInverse([t EXCEPT !.matrix_ = Multiply(t.matrix_, other)]))

rotateZ ==
    \E angle \in Angles :
        TransformCall("rotateZ",
            LET t == transform_matrix
            IN
            LET cosine == cos(angle)
                sine == sin(angle)
                matrix_ == t.matrix_
                other == Array(<<cosine, sine, 0, 0, 0 - sine, cosine, 0, 0, 0, 0, 1, 0,
                                 matrix_[12] - matrix_[12] * cosine + matrix_[13] * sine,
                                 matrix_[13] - matrix_[13] * cosine - matrix_[12] * sine,
                                 0,
                                 1>>)
            IN  buildInverse([t EXCEPT !.matrix_ = Multiply(t.matrix_, other)]))

rotateAxis ==
    \E vec \in Axes, angle \in Angles :
        TransformCall("rotateAxis",
            LET t == transform_matrix
            IN
            LET cosine == cos(angle)
                sine == sin(angle)
                tt == 1 - cosine
                vec2 == normalize(vec)
                other == Array(<<
                    vec2[0] * vec2[0] * tt + cosine,
                    vec2[1] * vec2[0] * tt - vec2[2] * sine,
                    vec2[2] * vec2[0] * tt + vec2[1] * sine,
                    0,
                    vec2[0] * vec2[1] * tt + vec2[2] * sine,
                    vec2[1] * vec2[1] * tt + cosine,
                    vec2[2] * vec2[1] * tt - vec2[0] * sine,
                    0,
                    vec2[0] * vec2[2] * tt - vec2[1] * sine,
                    vec2[1] * vec2[2] * tt + vec2[0] * sine,
                    vec2[2] * vec2[2] * tt + cosine,
                    0,
                    0, 0, 0, 1>>)
            IN  buildInverse([t EXCEPT !.matrix_ = Multiply(t.matrix_, other)]))

rotate ==
    \E vec \in Axes, angle \in Angles :
        TransformCall("rotate",
            LET t == transform_matrix
            IN
            LET cosine == cos(angle)
                sine == sin(angle)
                tt == 1 - cosine
                vec2 == normalize(vec)
                matrix_ == t.matrix_
                other == Array(<<
                    vec2[0] * vec2[0] * tt + cosine,
                    vec2[1] * vec2[0] * tt - vec2[2] * sine,
                    vec2[2] * vec2[0] * tt + vec2[1] * sine,
                    0,
                    vec2[0] * vec2[1] * tt + vec2[2] * sine,
                    vec2[1] * vec2[1] * tt + cosine,
                    vec2[2] * vec2[1] * tt - vec2[0] * sine,
                    0,
                    vec2[0] * vec2[2] * tt - vec2[1] * sine,
                    vec2[1] * vec2[2] * tt + vec2[0] * sine,
                    vec2[2] * vec2[2] * tt + cosine,
                    0,
                    matrix_[12] - matrix_[12] * (vec2[0] * vec2[0] * tt + cosine) - matrix_[13] * (vec2[0] * vec2[1] * tt + vec2[2] * sine) - matrix_[14] * (vec2[0] * vec2[2] * tt - vec2[1] * sine),
                    matrix_[13] - matrix_[12] * (vec2[1] * vec2[0] * tt - vec2[2] * sine) - matrix_[13] * (vec2[1] * vec2[1] * tt + cosine) - matrix_[14] * (vec2[1] * vec2[2] * tt + vec2[0] * sine),
                    matrix_[14] - matrix_[12] * (vec2[2] * vec2[0] * tt + vec2[1] * sine) - matrix_[13] * (vec2[2] * vec2[1] * tt - vec2[0] * sine) - matrix_[14] * (vec2[2] * vec2[2] * tt + cosine),
                    1>>)
            IN  buildInverse([t EXCEPT !.matrix_ = Multiply(t.matrix_, other)]))

translate(t, vec) ==
    LET other == Array(<<1, 0, 0, 0, 0, 1, 0, 0, 0, 0, 1, 0, vec[0], vec[1], vec[2], 1>>)
    IN  buildInverse([t EXCEPT !.matrix_ = Multiply(t.matrix_, other)])

scaleAxis(t, vec) ==
    LET other == Array(<<vec[0], 0, 0, 0, 0, vec[1], 0, 0, 0, 0, vec[2], 0, 0, 0, 0, 1>>)
    IN  buildInverse([t EXCEPT !.matrix_ = Multiply(t.matrix_, other)])

scaleAxisFac ==
    \E fac \in ScaleFacs :
        TransformCall("scaleAxisFac",
            LET t == transform_matrix
            IN
            LET other == Array(<<fac, 0, 0, 0, 0, fac, 0, 0, 0, 0, fac, 0, 0, 0, 0, 1>>)
            IN  buildInverse([t EXCEPT !.matrix_ = Multiply(t.matrix_, other)]))

scale ==
    \E vec \in ScaleVecs :
        TransformCall("scale",
            LET t == transform_matrix
            IN
            LET matrix_ == t.matrix_
                other == Array(<<vec[0], 0, 0, 0, 0, vec[1], 0, 0, 0, 0, vec[2], 0,
                                 matrix_[12] - vec[0] * matrix_[12],
                                 matrix_[13] - vec[1] * matrix_[13],
                                 matrix_[14] - vec[2] * matrix_[14],
                                 1>>)
            IN  buildInverse([t EXCEPT !.matrix_ = Multiply(t.matrix_, other)]))

scaleFac ==
    \E fac \in ScaleFacs :
        TransformCall("scaleFac",
            LET t == transform_matrix
            IN
            LET matrix_ == t.matrix_
                other == Array(<<fac, 0, 0, 0, 0, fac, 0, 0, 0, 0, fac, 0,
                                 matrix_[12] - fac * matrix_[12],
                                 matrix_[13] - fac * matrix_[13],
                                 matrix_[14] - fac * matrix_[14],
                                 1>>)
            IN  buildInverse([t EXCEPT !.matrix_ = Multiply(t.matrix_, other)]))

reflect ==
    \E vec \in Axes :
        TransformCall("reflect",
            LET t == transform_matrix
            IN
            buildInverse(t))

shear ==
    \E vec \in Axes :
        TransformCall("shear",
            LET t == transform_matrix
            IN
            buildInverse(t))

transpose ==
    TransformCall("transpose",
        LET t == transform_matrix
        IN
            LET matrix_ == t.matrix_
            IN  buildInverse([t EXCEPT !.matrix_ = Array(<<
                    matrix_[0], matrix_[4], matrix_[8], matrix_[12],
                    matrix_[1], matrix_[5], matrix_[9], matrix_[13],
                    matrix_[2], matrix_[6], matrix_[10], matrix_[14],
                    matrix_[3], matrix_[7], matrix_[11], matrix_[15]>>)]))

Adjugate(matrix_) ==
    LET transposed == Array(<<
            matrix_[0], matrix_[4], matrix_[8], matrix_[12],
            matrix_[1], matrix_[5], matrix_[9], matrix_[13],
            matrix_[2], matrix_[6], matrix_[10], matrix_[14],
            matrix_[3], matrix_[7], matrix_[11], matrix_[15]>>)
    IN
        LET tmp == Array(<<transposed[10] * transposed[15], transposed[11] * transposed[14], transposed[9] * transposed[15], transposed[11] * transposed[13], transposed[9] * transposed[14], transposed[10] * transposed[13], transposed[8] * transposed[15], transposed[11] * transposed[12], transposed[8] * transposed[14], transposed[10] * transposed[12], transposed[8] * transposed[13], transposed[9] * transposed[12]>>)
        tmp2 == Array(<<transposed[2] * transposed[7], transposed[3] * transposed[6], transposed[1] * transposed[7], transposed[3] * transposed[5], transposed[1] * transposed[6], transposed[2] * transposed[5], transposed[0] * transposed[7], transposed[3] * transposed[4], transposed[0] * transposed[6], transposed[2] * transposed[4], transposed[0] * transposed[5], transposed[1] * transposed[4]>>)
        IN  Array(<<
        (tmp[0] * transposed[5] + tmp[3] * transposed[6] + tmp[4] * transposed[7]) - (tmp[1] * transposed[5] + tmp[2] * transposed[6] + tmp[5] * transposed[7]),
        (tmp[1] * transposed[4] + tmp[6] * transposed[6] + tmp[9] * transposed[7]) - (tmp[0] * transposed[4] + tmp[7] * transposed[6] + tmp[8] * transposed[7]),
        (tmp[2] * transposed[4] + tmp[7] * transposed[5] + tmp[10] * transposed[7]) - (tmp[3] * transposed[4] + tmp[6] * transposed[5] + tmp[11] * transposed[7]),
        (tmp[5] * transposed[4] + tmp[8] * transposed[5] + tmp[11] * transposed[6]) - (tmp[4] * transposed[4] + tmp[9] * transposed[5] + tmp[10] * transposed[6]),
        (tmp[1] * transposed[1] + tmp[2] * transposed[2] + tmp[5] * transposed[3]) - (tmp[0] * transposed[1] + tmp[3] * transposed[2] + tmp[4] * transposed[3]),
        (tmp[0] * transposed[0] + tmp[7] * transposed[2] + tmp[8] * transposed[3]) - (tmp[1] * transposed[0] + tmp[6] * transposed[2] + tmp[9] * transposed[3]),
        (tmp[3] * transposed[0] + tmp[6] * transposed[1] + tmp[11] * transposed[3]) - (tmp[2] * transposed[0] + tmp[7] * transposed[1] + tmp[10] * transposed[3]),
        (tmp[4] * transposed[0] + tmp[9] * transposed[1] + tmp[10] * transposed[2]) - (tmp[5] * transposed[0] + tmp[8] * transposed[1] + tmp[11] * transposed[2]),
        (tmp2[0] * transposed[13] + tmp2[3] * transposed[14] + tmp2[4] * transposed[15]) - (tmp2[1] * transposed[13] + tmp2[2] * transposed[14] + tmp2[5] * transposed[15]),
        (tmp2[1] * transposed[12] + tmp2[6] * transposed[14] + tmp2[9] * transposed[15]) - (tmp2[0] * transposed[12] + tmp2[7] * transposed[14] + tmp2[8] * transposed[15]),
        (tmp2[2] * transposed[12] + tmp2[7] * transposed[13] + tmp2[10] * transposed[15]) - (tmp2[3] * transposed[12] + tmp2[6] * transposed[13] + tmp2[11] * transposed[15]),
        (tmp2[5] * transposed[12] + tmp2[8] * transposed[13] + tmp2[11] * transposed[14]) - (tmp2[4] * transposed[12] + tmp2[9] * transposed[13] + tmp2[10] * transposed[14]),
        (tmp2[2] * transposed[10] + tmp2[5] * transposed[11] + tmp2[1] * transposed[9]) - (tmp2[4] * transposed[11] + tmp2[0] * transposed[9] + tmp2[3] * transposed[10]),
        (tmp2[8] * transposed[11] + tmp2[0] * transposed[8] + tmp2[7] * transposed[10]) - (tmp2[6] * transposed[10] + tmp2[9] * transposed[11] + tmp2[1] * transposed[8]),
        (tmp2[6] * transposed[9] + tmp2[11] * transposed[11] + tmp2[3] * transposed[8]) - (tmp2[10] * transposed[11] + tmp2[2] * transposed[8] + tmp2[7] * transposed[9]),
        (tmp2[10] * transposed[10] + tmp2[4] * transposed[8] + tmp2[9] * transposed[9]) - (tmp2[8] * transposed[9] + tmp2[11] * transposed[10] + tmp2[5] * transposed[8])
        >>)

invert ==
    TransformCall("invert",
        LET t == transform_matrix
        IN
            LET transposed == Array(<<
                    t.matrix_[0], t.matrix_[4], t.matrix_[8], t.matrix_[12],
                    t.matrix_[1], t.matrix_[5], t.matrix_[9], t.matrix_[13],
                    t.matrix_[2], t.matrix_[6], t.matrix_[10], t.matrix_[14],
                    t.matrix_[3], t.matrix_[7], t.matrix_[11], t.matrix_[15]>>)
                adjugate == Adjugate(t.matrix_)
                det == Over(1, transposed[0] * adjugate[0] + transposed[1] * adjugate[1]
                               + transposed[2] * adjugate[2] + transposed[3] * adjugate[3])
            IN  buildInverse([t EXCEPT !.matrix_ = [k \in 0..15 |-> adjugate[k] * det]]))

neg ==
    TransformCall("neg",
        LET t == transform_matrix
        IN
            buildInverse([t EXCEPT !.matrix_ = [k \in 0..15 |-> t.matrix_[k] * (0 - 1)]]))

RotateZAxis == \E angle \in Angles : TransformCall("rotateZAxis", rotateZAxis(transform_matrix, angle))

Translate == \E vec \in Translations : TransformCall("translate", translate(transform_matrix, vec))

ScaleAxis == \E vec \in ScaleVecs : TransformCall("scaleAxis", scaleAxis(transform_matrix, vec))

TransformNext ==
    \/ rotateXAxis
    \/ rotateYAxis
    \/ RotateZAxis
    \/ rotateX
    \/ rotateY
    \/ rotateZ
    \/ rotateAxis
    \/ rotate
    \/ Translate
    \/ ScaleAxis
    \/ scaleAxisFac
    \/ scale
    \/ scaleFac
    \/ reflect
    \/ shear
    \/ transpose
    \/ invert
    \/ neg

multVec(t, vec) ==
    LET vec2 == [i \in 0..3 |->
                    vec[0] * t.matrix_[i] + vec[1] * t.matrix_[i + 4]
                    + vec[2] * t.matrix_[i + 8] + t.matrix_[i + 12]]
    IN  Array(<<Over(vec2[0], vec2[3]), Over(vec2[1], vec2[3]), Over(vec2[2], vec2[3])>>)

multDir(t, vec) ==
    LET vec2 == [i \in 0..3 |->
                    vec[0] * t.matrix_inverse_[i] + vec[1] * t.matrix_inverse_[i + 4]
                    + vec[2] * t.matrix_inverse_[i + 8]]
    IN  normalize(Array(<<vec2[0], vec2[1], vec2[2]>>))

(***************************************************************************)
(* Triangle_t: the constructor and update(). Vec3 values are arrays of     *)
(* three integers; an std::optional argument is a sequence of length 0     *)
(* (no value) or 1.                                                        *)
(***************************************************************************)
MaxTriangleCalls == 3

Vec3(x, y, z) == Array(<<x, y, z>>)

Minus(a, b) == Vec3(a[0] - b[0], a[1] - b[1], a[2] - b[2])

Plus(a, b) == Vec3(a[0] + b[0], a[1] + b[1], a[2] + b[2])

Times(a, scale_) == Vec3(a[0] * scale_, a[1] * scale_, a[2] * scale_)

cross(a, b) ==
    Vec3(a[1] * b[2] - a[2] * b[1], a[2] * b[0] - a[0] * b[2], a[0] * b[1] - a[1] * b[0])

value_or(optional, default) == IF optional = <<>> THEN default ELSE optional[1]

Triangle_t(material, transform_matrix_, points, normals_opt, texcoord) ==
    LET transformation_ == transform_matrix_
        points_orig_ == points
        nor == normalize(cross(Minus(points_orig_[1], points_orig_[0]),
                               Minus(points_orig_[2], points_orig_[0])))
        normals_orig_ == value_or(normals_opt, Array(<<nor, nor, nor>>))
        texture_coordinates_ == value_or(texcoord, Array(<<0, 1, 0, 0, 1, 0>>))
        points_ == Array(<<multVec(transformation_, points_orig_[0]),
                           multVec(transformation_, points_orig_[1]),
                           multVec(transformation_, points_orig_[2])>>)
        normals_ == Array(<<multDir(transformation_, normals_orig_[0]),
                            multDir(transformation_, normals_orig_[1]),
                            multDir(transformation_, normals_orig_[2])>>)
        v0v1_ == Minus(points_[1], points_[0])
        v0v2_ == Minus(points_[2], points_[0])
        tuv0v1 == Array(<<texture_coordinates_[2] - texture_coordinates_[0],
                          texture_coordinates_[3] - texture_coordinates_[1]>>)
        tuv0v2 == Array(<<texture_coordinates_[4] - texture_coordinates_[0],
                          texture_coordinates_[5] - texture_coordinates_[1]>>)
        determinant == tuv0v1[0] * tuv0v2[1] - tuv0v1[1] * tuv0v2[0]
        tuv_to_world_ ==
            IF determinant # 0
            THEN LET invdet == Over(1, determinant)
                 IN  Array(<<invdet * (0 - tuv0v2[0]), invdet * tuv0v1[0]>>)
            ELSE Array(<<1, 0>>)
    IN  [ material_ |-> material,
          transformation_ |-> transformation_,
          points_orig_ |-> points_orig_,
          normals_orig_ |-> normals_orig_,
          texture_coordinates_ |-> texture_coordinates_,
          points_ |-> points_,
          normals_ |-> normals_,
          v0v1_ |-> v0v1_,
          v0v2_ |-> v0v2_,
          tuv_to_world_ |-> tuv_to_world_,
          tangent_vec_ |-> Plus(Times(v0v1_, tuv_to_world_[0]), Times(v0v2_, tuv_to_world_[1])) ]

update_in_place(tri) ==
    LET points_ == Array(<<multVec(tri.transformation_, tri.points_[0]),
                           multVec(tri.transformation_, tri.points_[1]),
                           multVec(tri.transformation_, tri.points_[2])>>)
        normals_ == Array(<<multDir(tri.transformation_, tri.normals_[0]),
                            multDir(tri.transformation_, tri.normals_[1]),
                            multDir(tri.transformation_, tri.normals_[2])>>)
        v0v1_ == Minus(points_[1], points_[0])
        v0v2_ == Minus(points_[2], points_[0])
    IN  [tri EXCEPT
            !.points_ = points_,
            !.normals_ = normals_,
            !.v0v1_ = v0v1_,
            !.v0v2_ = v0v2_,
            !.tangent_vec_ = Plus(Times(v0v1_, tri.tuv_to_world_[0]), Times(v0v2_, tri.tuv_to_world_[1]))]

update(tri) ==
    LET points_ == Array(<<multVec(tri.transformation_, tri.points_orig_[0]),
                           multVec(tri.transformation_, tri.points_orig_[1]),
                           multVec(tri.transformation_, tri.points_orig_[2])>>)
        normals_ == Array(<<multDir(tri.transformation_, tri.normals_orig_[0]),
                            multDir(tri.transformation_, tri.normals_orig_[1]),
                            multDir(tri.transformation_, tri.normals_orig_[2])>>)
        v0v1_ == Minus(points_[1], points_[0])
        v0v2_ == Minus(points_[2], points_[0])
    IN  [tri EXCEPT
            !.points_ = points_,
            !.normals_ = normals_,
            !.v0v1_ = v0v1_,
            !.v0v2_ = v0v2_,
            !.tangent_vec_ = Plus(Times(v0v1_, tri.tuv_to_world_[0]), Times(v0v2_, tri.tuv_to_world_[1]))]

Cached(tri) == <<tri.points_, tri.normals_, tri.v0v1_, tri.v0v2_, tri.tangent_vec_>>

(***************************************************************************)
(* The triangles of get_triangles() in the test, all built with material   *)
(* 0, the identity transformation and no normals or texture coordinates.   *)
(***************************************************************************)
TRIANGLE_BUFFER_SIZE == 12

TestPoints ==
    Array(<<
        Array(<<Vec3(0, 2, 0), Vec3(1, 2, 0), Vec3(0, 2, 1)>>),
        Array(<<Vec3(1, 2, 0), Vec3(1, 2, 1), Vec3(0, 2, 1)>>),
        Array(<<Vec3(1, 3, 0), Vec3(0, 3, 0), Vec3(0, 3, 1)>>),
        Array(<<Vec3(0, 3, 1), Vec3(1, 3, 1), Vec3(1, 3, 0)>>),
        Array(<<Vec3(1, 2, 0), Vec3(0, 2, 0), Vec3(0, 3, 0)>>),
        Array(<<Vec3(0, 3, 0), Vec3(1, 3, 0), Vec3(1, 2, 0)>>),
        Array(<<Vec3(0, 3, 1), Vec3(0, 2, 1), Vec3(1, 2, 1)>>),
        Array(<<Vec3(1, 2, 1), Vec3(1, 3, 1), Vec3(0, 3, 1)>>),
        Array(<<Vec3(1, 3, 1), Vec3(1, 2, 1), Vec3(1, 2, 0)>>),
        Array(<<Vec3(1, 2, 0), Vec3(1, 3, 0), Vec3(1, 3, 1)>>),
        Array(<<Vec3(0, 2, 0), Vec3(0, 2, 1), Vec3(0, 3, 1)>>),
        Array(<<Vec3(0, 3, 1), Vec3(0, 3, 0), Vec3(0, 2, 0)>>)>>)

get_triangles ==
    [k \in 0..(TRIANGLE_BUFFER_SIZE - 1) |->
        Triangle_t(0, TransformMatrix_t(Identity), TestPoints[k], <<>>, <<>>)]

(***************************************************************************)
(* One triangle in the hands of a caller: it is constructed, and then its  *)
(* transformation_ is mutated and update() is called, in any order.        *)
(***************************************************************************)
TriangleTransforms ==
    { TransformMatrix_t(Identity),
      translate(rotateZAxis(TransformMatrix_t(Identity), 1), Vec3(1, 0, 0 - 1)) }

TrianglePoints == { TestPoints[0], TestPoints[3], TestPoints[8] }

TriangleNormals == { <<>>, <<Array(<<Vec3(0, 0, 1), Vec3(0, 2, 0), Vec3(0 - 1, 0, 0)>>)>> }

TexCoords ==
    { <<>>, <<Array(<<0, 0, 0, 0, 0, 0>>)>>, <<Array(<<0, 0, 0, 1, 1, 0>>)>> }

TriangleStart ==
    /\ triangle \in { Triangle_t(0, tm, points, normals, texcoord) :
                        tm \in TriangleTransforms, points \in TrianglePoints,
                        normals \in TriangleNormals, texcoord \in TexCoords }
    /\ trilast = [op |-> "ctor", prev |-> "none", before |-> Cached(triangle),
                  calls |-> 0, mutated |-> FALSE]

\* a mutation of transformation_ that also brings the cached fields up to date
TriangleMutateEager(t) ==
    /\ trilast.calls < MaxTriangleCalls
    /\ triangle' = update([triangle EXCEPT !.transformation_ = t])
    /\ trilast' = [trilast EXCEPT !.op = "mutate", !.prev = trilast.op,
                                  !.calls = @ + 1, !.mutated = TRUE]
    /\ UNCHANGED otherThanTriangle

TriangleMutate(t) ==
    /\ trilast.calls < MaxTriangleCalls
    /\ triangle' = [triangle EXCEPT !.transformation_ = t]
    /\ trilast' = [trilast EXCEPT !.op = "mutate", !.prev = trilast.op,
                                  !.calls = @ + 1, !.mutated = TRUE]
    /\ UNCHANGED otherThanTriangle

TriangleRotate == \E angle \in Angles : TriangleMutate(rotateZAxis(triangle.transformation_, angle))

TriangleTranslate == \E vec \in Translations : TriangleMutate(translate(triangle.transformation_, vec))

TriangleScale == \E vec \in ScaleVecs : TriangleMutate(scaleAxis(triangle.transformation_, vec))

TriangleUpdate ==
    /\ trilast.calls < MaxTriangleCalls
    /\ triangle' = update(triangle)
    /\ trilast' = [trilast EXCEPT !.op = "update", !.prev = trilast.op,
                                  !.before = Cached(triangle), !.calls = @ + 1]
    /\ UNCHANGED otherThanTriangle

TriangleNext ==
    \/ TriangleRotate
    \/ TriangleTranslate
    \/ TriangleScale
    \/ TriangleUpdate

(***************************************************************************)
(* The rotation test: a buffer of NTriangles consecutive triangles of      *)
(* get_triangles() is filled, one dispatch runs a work item per triangle   *)
(* that rotates its transformation_ and then calls update(), and the host  *)
(* accessor is created once every work item has finished. A work item is   *)
(* two steps, so that the work items interleave between their two calls.   *)
(***************************************************************************)
NTriangles == 3

Items == 0..(NTriangles - 1)

ElementShared(WIid) == 0

Element(WIid) == WIid

RotateStart ==
    /\ \E first \in 0..(TRIANGLE_BUFFER_SIZE - NTriangles) :
          triangles = [k \in Items |-> get_triangles[first + k]]
    /\ triangle_buffer = triangles
    /\ rotation \in [angle : Angles, item : {[k \in Items |-> "rotateZAxis"]}]
    /\ host_accessor = <<>>

KernelRotate(WIid) ==
    /\ rotation.item[WIid] = "rotateZAxis"
    /\ triangle_buffer' =
          [triangle_buffer EXCEPT ![Element(WIid)].transformation_ = rotateZAxis(@, rotation.angle)]
    /\ rotation' = [rotation EXCEPT !.item[WIid] = "update"]
    /\ UNCHANGED <<triangles, host_accessor, otherThanRotate>>

KernelUpdate(WIid) ==
    /\ rotation.item[WIid] = "update"
    /\ triangle_buffer' = [triangle_buffer EXCEPT ![Element(WIid)] = update(@)]
    /\ rotation' = [rotation EXCEPT !.item[WIid] = "done"]
    /\ UNCHANGED <<triangles, host_accessor, otherThanRotate>>

HostAccess ==
    /\ host_accessor = <<>>
    /\ \A WIid \in Items : rotation.item[WIid] = "done"
    /\ host_accessor' = <<triangle_buffer>>
    /\ UNCHANGED <<triangles, triangle_buffer, rotation, otherThanRotate>>

RotateNext ==
    \/ \E WIid \in Items : KernelRotate(WIid)
    \/ \E WIid \in Items : KernelUpdate(WIid)
    \/ HostAccess

(***************************************************************************)
(* Triangle_t::intersection(ray, t, uv): the result and what the call has  *)
(* left in its out-parameters t and uv. Rays are [origin_, direction_].    *)
(***************************************************************************)
dot_first(a, b) == a[0] * b[0]

dot(a, b) == a[0] * b[0] + a[1] * b[1] + a[2] * b[2]

intersection(tri, r, t, uv) ==
    LET pvec == cross(r.direction_, tri.v0v2_)
        det == dot(tri.v0v1_, pvec)
        invdet == Over(1, det)
        tvec == Minus(r.origin_, tri.points_[0])
        u == dot(tvec, pvec) * invdet
        qvec == cross(tvec, tri.v0v1_)
        v == dot(r.direction_, qvec) * invdet
        t_new == dot(tri.v0v2_, qvec) * invdet
    IN  IF det = 0
        THEN [res |-> FALSE, t |-> t, uv |-> uv]
        ELSE IF (u < 0) \/ (u > 1)
        THEN [res |-> FALSE, t |-> t, uv |-> Array(<<u, uv[1]>>)]
        ELSE IF (v < 0) \/ ((u + v) > 1)
        THEN [res |-> FALSE, t |-> t, uv |-> Array(<<u, v>>)]
        ELSE [res |-> t_new >= 0, t |-> t_new, uv |-> Array(<<u, v>>)]

\* the directions of the rays tried: the six axis directions
max(a, b) == IF a < b THEN b ELSE a

min(a, b) == IF b < a THEN b ELSE a

\* Triangle_t::mincoord()
mincoord(tri) ==
    Vec3(min(min(tri.points_[0][0], tri.points_[1][0]), tri.points_[2][0]),
         min(min(tri.points_[0][1], tri.points_[1][1]), tri.points_[2][1]),
         min(min(tri.points_[0][2], tri.points_[1][2]), tri.points_[2][2]))

\* Triangle_t::maxcoord()
maxcoord(tri) ==
    Vec3(max(max(tri.points_[0][0], tri.points_[1][0]), tri.points_[2][0]),
         max(max(tri.points_[0][1], tri.points_[1][1]), tri.points_[2][1]),
         max(max(tri.points_[0][2], tri.points_[1][2]), tri.points_[2][2]))

Directions ==
    { Vec3(1, 0, 0), Vec3(0 - 1, 0, 0), Vec3(0, 1, 0),
      Vec3(0, 0 - 1, 0), Vec3(0, 0, 1), Vec3(0, 0, 0 - 1) }

IntersectionStart ==
    call \in [ fn : {"intersection"},
               tri : {get_triangles[k] : k \in 0..(TRIANGLE_BUFFER_SIZE - 1)},
               ray : [origin_ : {Vec3(x, y, z) : x \in 0..1, y \in 1..2, z \in (0 - 1)..0},
                      direction_ : Directions],
               out : {[res |-> FALSE, t |-> 9, uv |-> Array(<<9, 9>>)]},
               done : {FALSE} ]

Intersection ==
    /\ call.fn = "intersection"
    /\ ~call.done
    /\ call' = [call EXCEPT !.out = intersection(call.tri, call.ray, call.out.t, call.out.uv),
                            !.done = TRUE]
    /\ UNCHANGED otherThanCall

(***************************************************************************)
(* Diffuse_t::bounce. Directions, albedo channels and the square roots of  *)
(* the second random number are in fifths, mask and colour channels in     *)
(* twenty-fifths, roughness in halves; the first random number is a whole  *)
(* number of quarter turns. The origin keeps apart its part in fifths and  *)
(* the multiples of the offset 0.00001 added along the normal.             *)
(***************************************************************************)
One == 5

\* sqrt of a value in twenty-fifths, in fifths
sqrt(x) == CHOOSE q \in 0..One : q * q = x

pow_double(x, roughness) == 2 * x

\* pow(x, roughness) of a value in fifths, in fifths
pow(x, roughness) ==
    CASE roughness = 0 -> One
      [] roughness = 1 -> CHOOSE q \in 0..One : q * q = One * x
      [] roughness = 2 -> x

\* Vec3::operator*(const Vec3&) of a value in twenty-fifths and one in fifths
Product(a, b) == Vec3(a[0] * b[0], a[1] * b[1], a[2] * b[2])

\* a value in hundred-twenty-fifths brought back to twenty-fifths
Fifths(a) == CHOOSE q \in {a \div One} : q * One = a

\* Triangle_t::normal(time, uv)
normal(tri, uv) ==
    LET distance == Vec3(1 - uv[0] - uv[1], uv[0], uv[1])
    IN  Vec3(distance[0] * tri.normals_[0][0] + distance[1] * tri.normals_[1][0] + distance[2] * tri.normals_[2][0],
             distance[0] * tri.normals_[0][1] + distance[1] * tri.normals_[1][1] + distance[2] * tri.normals_[2][1],
             distance[0] * tri.normals_[0][2] + distance[1] * tri.normals_[1][2] + distance[2] * tri.normals_[2][2])

\* ray.colour_ += ray.mask_ * emission_
Emit(mat, r) == [r EXCEPT !.colour_ = Plus(@, Product(r.mask_, mat.emission_))]

\* ray.mask_ *= colour_ * pow(newdir.dot(normal), roughness_)
Attenuate(mat, r, cosine) ==
    LET factor == Times(mat.colour_, pow(cosine, mat.roughness_))
        masked == Product(r.mask_, factor)
    IN  [r EXCEPT !.mask_ = Vec3(Fifths(Fifths(masked[0])), Fifths(Fifths(masked[1])), Fifths(Fifths(masked[2])))]

\* the new origin and direction of the bounce, and newdir.dot(normal)
Redirect(uv, hit_obj, r, rand1, rand2) ==
    LET outward == normal(hit_obj, uv)
        rand2s == sqrt(rand2)
        n == IF dot(outward, r.direction_) > 0 THEN Times(outward, 0 - 1) ELSE outward
        axis == IF (IF n[0] < 0 THEN 0 - n[0] ELSE n[0]) > 0 THEN Vec3(0, 1, 0) ELSE Vec3(1, 0, 0)
        u == normalize(cross(axis, n))
        v == normalize(cross(n, u))
        sum == Plus(Plus(Times(u, cos(rand1) * rand2s), Times(v, sin(rand1) * rand2s)),
                    Times(n, sqrt(One * One - rand2)))
        newdir == Vec3(Over(sum[0] * One, magnitude(sum)), Over(sum[1] * One, magnitude(sum)),
                       Over(sum[2] * One, magnitude(sum)))
    IN  [ ray |-> [r EXCEPT !.origin_ = [at |-> Plus(r.origin_.at, Times(r.direction_, r.dist_)),
                                          eps |-> Plus(r.origin_.eps, n)],
                            !.direction_ = newdir],
          cosine |-> Over(dot(newdir, n), 1) ]

bounce_attenuate_first(mat, uv, hit_obj, r, rand1, rand2) ==
    LET redirected == Redirect(uv, hit_obj, r, rand1, rand2)
    IN  Emit(mat, Attenuate(mat, redirected.ray, redirected.cosine))

\* Diffuse_t::bounce(random_generator, uv, hit_obj, ray), the two numbers
\* drawn from random_generator given as rand1 and rand2
bounce(mat, uv, hit_obj, r, rand1, rand2) ==
    LET redirected == Redirect(uv, hit_obj, r, rand1, rand2)
    IN  Attenuate(mat, Emit(mat, redirected.ray), redirected.cosine)

\* Diffuse_t(emission, colour, roughness)
Diffuse_t(emission, colour, roughness) ==
    [emission_ |-> emission, colour_ |-> colour, roughness_ |-> roughness]

BounceStart ==
    /\ call \in [ fn : {"bounce"},
                  mat : {Diffuse_t(e, c, roughness) :
                            e \in {Vec3(0, 0, 0), Vec3(2, 1, 0)},
                            c \in {Vec3(One, One, One), Vec3(3, 0, One), Vec3(0 - 2 * One, One, 0)},
                            roughness \in 0..2},
                  hit_obj : {get_triangles[0], get_triangles[4], get_triangles[8]},
                  ray : [origin_ : {[at |-> Vec3(0, 0, 0), eps |-> Vec3(0, 0, 0)]},
                         direction_ : {Times(d, One) : d \in Directions},
                         colour_ : {Vec3(0, 0, 0), Vec3(One * One, 0, 1)},
                         mask_ : {Vec3(One * One, One * One, One * One), Vec3(0 - 2 * One * One, 0, One * One)},
                         dist_ : {1}],
                  rand1 : Angles,
                  rand2 : {0, 9, 16},
                  out : {<<>>},
                  done : {FALSE} ]
    /\ call.mat.roughness_ = 1 => call.rand2 = 0

Bounce ==
    /\ call.fn = "bounce"
    /\ ~call.done
    /\ call' = [call EXCEPT !.out = bounce(call.mat, Array(<<0, 0>>), call.hit_obj, call.ray,
                                             call.rand1, call.rand2),
                            !.done = TRUE]
    /\ UNCHANGED otherThanCall

(***************************************************************************)
(* TransformMatrix_t::getScale. It reads matrix_ only, so the call is made *)
(* on the sixteen values of a matrix that scales, turns about the z axis   *)
(* and translates.                                                         *)
(***************************************************************************)
getScale(matrix_) ==
    LET norm0 == magnitude(Vec3(matrix_[0], matrix_[1], matrix_[2]))
        norm1 == magnitude(Vec3(matrix_[4], matrix_[5], matrix_[6]))
        norm2 == magnitude(Vec3(matrix_[7], matrix_[8], matrix_[9]))
    IN  max(max(norm0, norm1), norm2)

GetScaleStart ==
    call \in [ fn : {"getScale"},
               matrix_ : { translate(rotateZAxis(TransformMatrix_t(Identity), angle), vec).matrix_ :
                              angle \in Angles, vec \in {Vec3(0, 0, 0), Vec3(2, 0, 1)} }
                         \cup
                         { Multiply(Multiply(Identity,
                               Array(<<x, 0, 0, 0, 0, y, 0, 0, 0, 0, z, 0, 0, 0, 0, 1>>)),
                               rotateZAxis(TransformMatrix_t(Identity), angle).matrix_) :
                              x \in 1..3, y \in 1..3, z \in 1..3, angle \in Angles },
               out : {0},
               done : {FALSE} ]

GetScale ==
    /\ call.fn = "getScale"
    /\ ~call.done
    /\ call' = [call EXCEPT !.out = getScale(call.matrix_), !.done = TRUE]
    /\ UNCHANGED otherThanCall

(***************************************************************************)
(* The specifications.                                                     *)
(***************************************************************************)
\* no list under test
ListIdle ==
    /\ seeded = FALSE
    /\ medium_list = EmptyList
    /\ adds = <<>>
    /\ pending = [m \in Media |-> 0]
    /\ nops = 0
    /\ clean = TRUE
    /\ start = EmptyList
    /\ lastop = [op |-> "none", medium |-> 0, before |-> start, slots |-> {}]

\* no raycast call in progress
RayIdle ==
    /\ ray = Ray_t(0, 0, 0, 100, SeededList)
    /\ max_bounces = 0
    /\ bounces = 0
    /\ pc = "idle"
    /\ hit = NoHit
    /\ ray0 = ray
    /\ log = <<>>

\* a constructed camera that is not used
CamIdle ==
    /\ CamStart
    /\ gammaind_ = 1
    /\ scene = [kind |-> "lit", background |-> 0, stale |-> FALSE]
    /\ rng_ = Seeded(0)

\* no accumulateWrite call in progress
AccIdle ==
    /\ accum = [pc |-> "idle", n |-> 0, n_iter |-> 0, interval |-> 1]
    /\ acclog = <<>>

\* no generator under construction
GenIdle ==
    generator = [ctor |-> "none", size |-> <<0, 0>>, seed |-> 0, rng_ |-> <<>>]

\* a scene that is constructed empty and left alone
SceneIdle ==
    /\ SceneStart
    /\ shapes_ = <<>>
    /\ materials_ = <<>>
    /\ mediums_ = <<>>

\* a transformation that is constructed and left alone
TransformIdle ==
    /\ transform_matrix = TransformMatrix_t(Identity)
    /\ tcalls = [n |-> 0, last |-> "TransformMatrix_t"]

\* a triangle that is constructed and left alone
TriangleIdle ==
    /\ triangle = get_triangles[0]
    /\ trilast = [op |-> "ctor", prev |-> "none", before |-> Cached(triangle),
                  calls |-> 0, mutated |-> FALSE]

\* no buffer of triangles and no dispatch
RotateIdle ==
    /\ triangles = <<>>
    /\ triangle_buffer = <<>>
    /\ rotation = [angle |-> 0, item |-> <<>>]
    /\ host_accessor = <<>>

\* no function under test
CallIdle == call = [fn |-> "none", done |-> TRUE]

GeometryIdle == TransformIdle /\ TriangleIdle /\ RotateIdle /\ CallIdle

ListInit == ListStart /\ RayIdle /\ CamIdle /\ SceneIdle /\ AccIdle /\ GenIdle /\ GeometryIdle

SpecList == ListInit /\ [][ListNext]_vars

RayInit == RayStart /\ ListIdle /\ CamIdle /\ SceneIdle /\ AccIdle /\ GenIdle /\ GeometryIdle

SpecRay == RayInit /\ [][RayNext]_vars

CamInit == CamStart /\ ListIdle /\ RayIdle /\ SceneIdle /\ AccIdle /\ GenIdle /\ GeometryIdle

SpecCam == CamInit /\ [][CamNext]_vars

DispatchInit ==
    /\ CamStart
    /\ gammaind_ = 1
    /\ scene.background <= 1
    /\ ListIdle
    /\ RayIdle
    /\ SceneIdle
    /\ AccIdle
    /\ GenIdle
    /\ GeometryIdle

SpecDispatch == DispatchInit /\ [][DispatchNext]_vars

SceneInit == SceneStart /\ ListIdle /\ RayIdle /\ CamIdle /\ AccIdle /\ GenIdle /\ GeometryIdle

SpecScene == SceneInit /\ [][SceneNext]_vars

AccInit ==
    /\ AccStart
    /\ CamStart
    /\ rng_ = Seeded(0)
    /\ scene.kind = "lit"
    /\ ListIdle
    /\ RayIdle
    /\ SceneIdle
    /\ GenIdle
    /\ GeometryIdle

SpecAccumulate == AccInit /\ [][AccNext]_vars

GenInit == GenStart /\ ListIdle /\ RayIdle /\ CamIdle /\ SceneIdle /\ AccIdle /\ GeometryIdle

SpecGenerator == GenInit /\ [][GenNext]_vars

TransformInit ==
    /\ TransformStart
    /\ ListIdle /\ RayIdle /\ CamIdle /\ SceneIdle /\ AccIdle /\ GenIdle
    /\ TriangleIdle /\ RotateIdle /\ CallIdle

SpecTransform == TransformInit /\ [][TransformNext]_vars

TriangleInit ==
    /\ TriangleStart
    /\ ListIdle /\ RayIdle /\ CamIdle /\ SceneIdle /\ AccIdle /\ GenIdle
    /\ TransformIdle /\ RotateIdle /\ CallIdle

SpecTriangle == TriangleInit /\ [][TriangleNext]_vars

RotateInit ==
    /\ RotateStart
    /\ ListIdle /\ RayIdle /\ CamIdle /\ SceneIdle /\ AccIdle /\ GenIdle
    /\ TransformIdle /\ TriangleIdle /\ CallIdle

SpecRotate == RotateInit /\ [][RotateNext]_vars

CallOnly ==
    /\ ListIdle /\ RayIdle /\ CamIdle /\ SceneIdle /\ AccIdle /\ GenIdle
    /\ TransformIdle /\ TriangleIdle /\ RotateIdle

IntersectionInit == IntersectionStart /\ CallOnly

SpecIntersection == IntersectionInit /\ [][Intersection]_vars

BounceInit == BounceStart /\ CallOnly

SpecBounce == BounceInit /\ [][Bounce]_vars

GetScaleInit == GetScaleStart /\ CallOnly

SpecGetScale == GetScaleInit /\ [][GetScale]_vars

(***************************************************************************)
(* Properties of raycast and intersect_brute.                              *)
(***************************************************************************)
Events(e) == {k \in DOMAIN log : log[k].e = e}

HitIterations == {k \in Events("intersect") : log[k].res}

\* C3: raycast runs at most max_bounces loop iterations: every iteration
\* that finds a hit increments bounces before scatter or bounce is
\* consulted, so iterations in which the medium scatters count too.
C3_IterationsBounded ==
    /\ Cardinality(Events("intersect")) <= max_bounces
    /\ bounces <= max_bounces
    /\ bounces = Cardinality(HitIterations)
                   - (IF pc = "hit" /\ hit.has_value THEN 1 ELSE 0)
    /\ Cardinality(Events("scatter")) <= bounces
    /\ Cardinality(Events("bounce")) <= bounces

\* a call with an always-scattering medium in front that used every
\* allowed iteration on scattering and returned
C3_Witness ==
    /\ pc = "done"
    /\ max_bounces = MaxBounces
    /\ Cardinality(Events("intersect")) = max_bounces
    /\ \A k \in Events("scatter") : log[k].res /\ log[k].arg = 1
    /\ Cardinality(Events("scatter")) = max_bounces

\* C4: in an iteration with a hit, the material bounce is invoked if and
\* only if the ray's active medium (entry 0 of its medium list) returned
\* false from scatter in that iteration; scatter comes before bounce, and
\* after a scatter that returned true the loop goes on without a bounce.
C4_BounceIffNoScatter ==
    /\ \A k \in Events("scatter") :
          /\ k > 1 /\ log[k - 1].e = "intersect" /\ log[k - 1].res
          /\ log[k].arg = log[k].ray.medium_list_.mediums_[0]
          /\ IF log[k].res
             THEN k < Len(log) => log[k + 1].e = "intersect"
             ELSE IF k < Len(log)
                  THEN log[k + 1].e = "bounce"
                  ELSE pc = "bounce"
    /\ \A k \in Events("bounce") :
          k > 1 /\ log[k - 1].e = "scatter" /\ ~log[k - 1].res
    /\ \A k \in HitIterations :
          IF k < Len(log) THEN log[k + 1].e = "scatter" ELSE pc \in {"hit", "scatter"}
    /\ pc = "bounce" => (log # <<>> /\ log[Len(log)].e = "scatter" /\ ~log[Len(log)].res)

\* a call in which one iteration scattered and went on to the next
\* intersection, and another did not scatter and bounced
C4_Witness ==
    /\ \E k \in Events("scatter") :
          log[k].res /\ k < Len(log) /\ log[k + 1].e = "intersect"
    /\ \E k \in Events("scatter") :
          ~log[k].res /\ k < Len(log) /\ log[k + 1].e = "bounce"

\* C5: an iteration without a hit adds mask * skybox.get(direction) to the
\* colour exactly once and raycast returns at once: the skybox is queried
\* at most once per call, only after an intersection that found nothing,
\* and nothing is called and nothing of the ray changes after it.
C5_SkyboxOnceThenReturn ==
    /\ Cardinality(Events("skybox")) <= 1
    /\ \A k \in Events("skybox") :
          /\ k = Len(log)
          /\ pc = "done"
          /\ k > 1 /\ log[k - 1].e = "intersect" /\ ~log[k - 1].res
          /\ log[k].arg = log[k].ray.direction_
          /\ ray = [log[k].ray EXCEPT
                       !.colour_ = @ + log[k].ray.mask_ * skybox_get(log[k].ray.direction_)]
    /\ \A k \in Events("intersect") :
          (~log[k].res /\ k < Len(log)) => log[k + 1].e = "skybox"
    /\ (log # <<>> /\ log[Len(log)].e = "intersect" /\ ~log[Len(log)].res) => pc = "hit"

\* a call that bounced, then missed every shape and returned with the
\* skybox's light added through a non-zero mask
C5_Witness ==
    /\ pc = "done"
    /\ Events("bounce") # {}
    /\ \E k \in Events("skybox") : log[k].ray.mask_ > 0 /\ ray.colour_ > log[k].ray.colour_

\* C6: with max_bounces = 0 raycast returns without any intersection,
\* skybox, scatter or bounce call and leaves every field of the ray as it
\* was.
C6_ZeroBouncesNoEffect ==
    max_bounces = 0 =>
        /\ log = <<>>
        /\ ray = ray0
        /\ bounces = 0
        /\ pc \in {"loop", "done"}

\* a call with max_bounces = 0 and a mask above the cutoff that returned
C6_Witness ==
    /\ max_bounces = 0
    /\ pc = "done"
    /\ magnitudeSquared(ray0.mask_) > minimum_mask

\* the shapes whose test succeeded in the last intersect_brute call
Succeeded == {s \in Shapes : hit.tests[s].ok}

\* C7: intersect_brute returns none exactly when no shape's test succeeds;
\* otherwise it returns the shape with the least hit distance among the
\* succeeding shapes, with that shape's own t and uv.
C7_BruteReturnsNearest ==
    pc = "hit" =>
        /\ hit.has_value <=> (Succeeded # {})
        /\ hit.has_value =>
              /\ hit.shape \in Succeeded
              /\ \A s \in Succeeded : hit.tests[hit.shape].t <= hit.tests[s].t
              /\ hit.t = hit.tests[hit.shape].t
              /\ hit.uv = <<hit.tests[hit.shape].u, hit.tests[hit.shape].v>>

(***************************************************************************)
(* Properties of the camera.                                               *)
(***************************************************************************)
AllDone == \A p \in Pixels : wi[p].pc = "done"

\* C8: within one raytrace dispatch the work item of a pixel reads and
\* writes only that pixel's image slot and generator slot and builds its
\* rays from the kernel's copy of the medium list; once every work item is
\* done the image and the generators are what running the work items one
\* after the other gives, whatever the interleaving was, and the camera's
\* own medium list is as it was at the submission.
C8_WorkItemsIndependent ==
    /\ \A p \in Pixels : touched[p] \subseteq {<<"img", p>>, <<"rng", p>>}
    /\ \A p \in Pixels :
          wi[p].subindex > 0 => wi[p].list = submitted.medium_list
    /\ medium_list_ = submitted.medium_list
    /\ AllDone =>
          /\ image_.img_ = RaytraceResult(kernel, submitted.img, submitted.rng).img
          /\ rng_ = RaytraceResult(kernel, submitted.img, submitted.rng).rng

C8_Witness ==
    /\ AllDone
    /\ ncalls = MaxDispatches
    /\ scene.kind = "lit"
    /\ \A p \in Pixels : touched[p] = {<<"img", p>>, <<"rng", p>>}
    /\ \E p \in Pixels : image_.img_[p] > submitted.img[p] /\ submitted.img[p] > 0
    /\ rng_ # submitted.rng

\* C9: setUp and zoom change only the buffered up vector and field of
\* view; up_ and fov_, which raytrace uses, change in no call but update(),
\* and update() sets them to the buffered values.
C9_BufferedUntilUpdate ==
    [][ /\ lastcall' = "update" =>
              /\ up_' = up_buffer_
              /\ fov_' = fov_buffer_
              /\ UNCHANGED <<up_buffer_, fov_buffer_>>
        /\ lastcall' # "update" => UNCHANGED <<up_, fov_>>
        /\ lastcall' = "setUp" =>
              UNCHANGED <<fov_buffer_, medium_list_, gammaind_, image_, rng_, written>>
        /\ lastcall' = "zoom" =>
              UNCHANGED <<up_buffer_, medium_list_, gammaind_, image_, rng_, written>>
        /\ lastcall' = "raytrace" => used' = [up |-> up_, fov |-> fov_]
      ]_vars

C9_Witness ==
    /\ lastcall = "raytrace"
    /\ ncalls >= 3
    /\ up_buffer_ # up_
    /\ fov_buffer_ # fov_
    /\ used = [up |-> up_, fov |-> fov_]

\* the 16 bit value of the colour a / b, a / b in [0, 1]
Quantize(a, b) == (2 * bit_multiplier * a + b) \div (2 * b)

\* clamp(c, 0, 1) ^ (1 / gamma) as 16 bit values: the fractions a / b with
\* (a / b) ^ gamma = clamp(c, 0, 1)
ClampThenRoot(c, gamma) ==
    LET clamped == IF c > ColourUnit THEN ColourUnit ELSE IF c < 0 THEN 0 ELSE c
    IN {Quantize(q[1], q[2]) :
          q \in {r \in (0 .. ColourUnit) \X (1 .. ColourUnit) :
                    Pow(r[1], gamma) * ColourUnit = clamped * Pow(r[2], gamma)}}

\* clamp(c ^ gammaind, 0, 1) as a 16 bit value
PowThenClamp(c, gammaind) ==
    LET num == Pow(c, gammaind)
        den == Pow(ColourUnit, gammaind)
    IN IF num >= den THEN bit_multiplier ELSE IF num <= 0 THEN 0 ELSE Quantize(num, den)

\* pixel p got the same colour c from every raytrace since the constructor
\* or the last reset, and write() was called last
WrittenConstant(p, c) ==
    /\ lastcall = "write"
    /\ image_.updates_ >= 1
    /\ contribs[p] = {c}

\* C10 as stated: after N >= 1 iterations that each contribute c to a
\* pixel, write() outputs clamp(c, 0, 1) ^ (1 / gamma) for it whatever N is,
\* the update count being the number of raytrace calls since the
\* constructor or the last reset.
C10_WriteClampThenRoot ==
    /\ image_.updates_ = ntraces
    /\ \A p \in Pixels : \A c \in 0 .. (ColourUnit * ColourUnit) :
          WrittenConstant(p, c) => written[p] \in ClampThenRoot(c, gammaind_)

\* C10 as the code has it: after N >= 1 iterations that each contribute
\* c >= 0 to a pixel, write() outputs clamp(c ^ gammaind, 0, 1) for it
\* whatever N is: the sum is divided by the update count, which is the
\* number of raytrace calls since the constructor or the last reset,
\* before the exponent gammaind and then the clamp are applied.
C10_WritePowThenClamp ==
    /\ image_.updates_ = ntraces
    /\ \A p \in Pixels : \A c \in 0 .. (ColourUnit * ColourUnit) :
          WrittenConstant(p, c) => written[p] = PowThenClamp(c, gammaind_)

C10_Witness ==
    /\ image_.updates_ >= 2
    /\ gammaind_ = 2
    /\ \E p \in Pixels :
          /\ WrittenConstant(p, 1)
          /\ written[p] = PowThenClamp(1, 2)
          /\ written[p] \notin ClampThenRoot(1, 2)

(***************************************************************************)
(* Properties of single calls on the medium list.                          *)
(***************************************************************************)
\* the sequence s without its k-th element
Without(s, k) == [i \in 1 .. (Len(s) - 1) |-> IF i < k THEN s[i] ELSE s[i + 1]]

\* the positions of the active entries equal to x
Positions(s, x) == {i \in DOMAIN s : s[i] = x}

FirstOf(S) == CHOOSE i \in S : \A j \in S : i <= j

\* C11: remove_from_mediums(id) removes only the front-most occurrence of
\* id: n_mediums_ drops by one, the other active entries keep their order
\* and later occurrences of id stay; when id is not active the active
\* entries and n_mediums_ are unchanged.
C11_RemoveFirstOccurrenceOnly ==
    lastop.op = "remove" =>
        LET before == Active(lastop.before)
            occ == Positions(before, lastop.medium)
        IN IF occ = {}
           THEN /\ Active(medium_list) = before
                /\ medium_list.n_mediums_ = lastop.before.n_mediums_
           ELSE /\ medium_list.n_mediums_ = lastop.before.n_mediums_ - 1
                /\ Active(medium_list) = Without(before, FirstOf(occ))
                /\ Count(Active(medium_list), lastop.medium) = Cardinality(occ) - 1

C11_Witness ==
    /\ lastop.op = "remove"
    /\ Cardinality(Positions(Active(lastop.before), lastop.medium)) >= 2
    /\ FirstOf(Positions(Active(lastop.before), lastop.medium)) > 1
    /\ lastop.before.n_mediums_ >= 4
    /\ Count(Active(medium_list), lastop.medium) >= 1

\* the positions of the active entries with the priority of medium x
Ties(s, x) == {i \in DOMAIN s : priority_(s[i]) = priority_(x)}

\* the new medium sits at position k, right in front of the entry that was
\* there, and is the active medium when k is the front
PlacedBefore(k) ==
    /\ k <= medium_list.n_mediums_
    /\ Active(medium_list)[k] = lastop.medium
    /\ k + 1 <= medium_list.n_mediums_
    /\ Active(medium_list)[k + 1] = Active(lastop.before)[k]
    /\ k = 1 => medium_list.mediums_[0] = lastop.medium

\* C12 as stated: when add_to_mediums inserts a medium whose priority
\* equals that of an entry of the list, the new medium is placed right
\* before the first such entry and is the active medium if that entry was
\* at the front.
C12_TieInsertsBefore ==
    (lastop.op = "add" /\ Ties(Active(lastop.before), lastop.medium) # {}) =>
        PlacedBefore(FirstOf(Ties(Active(lastop.before), lastop.medium)))

\* C12 as the code has it: the same, unless the first entry of equal
\* priority is in the last slot of a full list; the new medium then takes
\* that slot and the entry is gone.
C12_TieInsertsBeforeUnlessLastSlot ==
    (lastop.op = "add" /\ Ties(Active(lastop.before), lastop.medium) # {}) =>
        LET k == FirstOf(Ties(Active(lastop.before), lastop.medium))
        IN IF k = N
           THEN /\ medium_list.n_mediums_ = N
                /\ medium_list.mediums_[N - 1] = lastop.medium
                /\ \A s \in 0 .. (N - 2) :
                      medium_list.mediums_[s] = lastop.before.mediums_[s]
           ELSE PlacedBefore(k)

C12_Witness ==
    /\ lastop.op = "add"
    /\ Ties(Active(lastop.before), lastop.medium) # {}
    /\ FirstOf(Ties(Active(lastop.before), lastop.medium)) \in 2 .. (N - 1)
    /\ Active(lastop.before)[FirstOf(Ties(Active(lastop.before), lastop.medium))] # lastop.medium
    /\ PlacedBefore(FirstOf(Ties(Active(lastop.before), lastop.medium)))

\* the active entries whose priority is not above that of medium x
NotAbove(s, x) == {i \in DOMAIN s : priority_(s[i]) <= priority_(x)}

\* C13 as stated: on a list that holds N entries add_to_mediums drops the
\* new entry whatever its priority: n_mediums_ stays N and the N entries
\* are unchanged.
C13_FullListDropsNew ==
    (lastop.op = "add" /\ lastop.before.n_mediums_ = N) => medium_list = lastop.before

\* C13 as the code has it: on a list that holds N entries n_mediums_ stays
\* N; the new entry is dropped and the entries are unchanged only when
\* every entry has a priority above the new medium's; otherwise the new
\* medium is stored at the position of the first entry whose priority is
\* not above its own, and the entries in front of it are unchanged.
C13_FullListDropsOnlyLowest ==
    (lastop.op = "add" /\ lastop.before.n_mediums_ = N) =>
        /\ medium_list.n_mediums_ = N
        /\ LET low == NotAbove(Active(lastop.before), lastop.medium)
           IN IF low = {}
              THEN medium_list = lastop.before
              ELSE /\ Active(medium_list)[FirstOf(low)] = lastop.medium
                   /\ \A i \in 1 .. (FirstOf(low) - 1) :
                         Active(medium_list)[i] = Active(lastop.before)[i]

C13_Witness ==
    /\ lastop.op = "add"
    /\ lastop.before.n_mediums_ = N
    /\ medium_list.n_mediums_ = N
    /\ medium_list # lastop.before
    /\ medium_list.mediums_[1] = lastop.medium
    /\ Count(Active(lastop.before), lastop.medium) = 0

C15_SceneRemoveFirstOnly ==
    scenelast.op = "remove" =>
        LET occ == Positions(scenelast.before, scenelast.x)
        IN IF occ = {}
           THEN scenelast.after = scenelast.before
           ELSE scenelast.after = Without(scenelast.before, FirstOf(occ))

(***************************************************************************)
(* Properties of accumulateWrite.                                          *)
(***************************************************************************)
Calls(name) == {i \in DOMAIN acclog : acclog[i].call = name}

\* C16: accumulateWrite(n_iter, interval) with interval >= 1 makes exactly
\* n_iter raytrace calls and calls write() exactly after the iterations
\* interval, 2 * interval, ... that are <= n_iter, each write coming right
\* after the raytrace of its iteration and before the next raytrace; there
\* is no write when interval > n_iter.
C16_WriteEveryInterval ==
    /\ \A i \in Calls("write") :
          /\ acclog[i].n % accum.interval = 0
          /\ i > 1
          /\ acclog[i - 1] = [call |-> "raytrace", n |-> acclog[i].n]
    /\ \A i \in Calls("raytrace") :
          /\ acclog[i].n = Cardinality({j \in Calls("raytrace") : j <= i})
          /\ (acclog[i].n % accum.interval = 0 /\ (i < Len(acclog) \/ accum.pc = "done"))
                => (i < Len(acclog) /\ acclog[i + 1].call = "write")
    /\ accum.pc = "done" =>
          /\ Cardinality(Calls("raytrace")) = accum.n_iter
          /\ Cardinality(Calls("write")) = accum.n_iter \div accum.interval
          /\ image_.updates_ = accum.n_iter
          /\ accum.interval > accum.n_iter => Calls("write") = {}

C16_Witness ==
    /\ accum.pc = "done"
    /\ accum.n_iter = MaxIter
    /\ accum.interval = 2
    /\ Cardinality(Calls("write")) = MaxIter \div 2
    /\ acclog[Len(acclog) - 1].call = "raytrace"

(***************************************************************************)
(* Properties of the generator constructors.                               *)
(***************************************************************************)
Constructed == \A p \in DOMAIN generator.rng_ : generator.rng_[p] # -1

DistinctSeeds ==
    \A p \in DOMAIN generator.rng_ : \A q \in DOMAIN generator.rng_ :
        p # q => generator.rng_[p] # generator.rng_[q]

\* C17 as stated: once a RandomGenerator_t is constructed, by the host
\* constructor or the device one and whatever the image size, every
\* pixel's generator has a seed different from every other pixel's.
C17_SeedsDistinct ==
    (generator.ctor # "none" /\ Constructed) => DistinctSeeds

\* C17 as the code has it: the device constructor seeds pixel k with
\* seed + k for one random-device draw, so that once it is done any two
\* pixels have different seeds (the image having no more pixels than the
\* generator tells seeds apart); the host constructor seeds each pixel
\* with a draw of its own and promises nothing about two pixels.
C17_DeviceSeedsDistinct ==
    (generator.ctor = "device" /\ Constructed
        /\ Cardinality(DOMAIN generator.rng_) <= SeedSpace) =>
        /\ DistinctSeeds
        /\ \A p \in DOMAIN generator.rng_ :
              generator.rng_[p] = (generator.seed + get_linear_id(p, generator.size)) % SeedSpace

C17_Witness ==
    /\ generator.ctor = "device"
    /\ Constructed
    /\ generator.size = <<MaxSide, MaxSide>>
    /\ \E p \in DOMAIN generator.rng_ : generator.rng_[p] < generator.seed
    /\ DistinctSeeds

(***************************************************************************)
(* Properties of TransformMatrix_t and Triangle_t.                         *)
(***************************************************************************)
\* C18: when the host reads the buffer after the dispatch, every triangle
\* has the points_ that rotateZAxis(angle) followed by update() give on a
\* copy of the triangle the buffer was filled with, whatever the order in
\* which the work items ran their two calls.
HostResult(tri, angle) ==
    update([tri EXCEPT !.transformation_ = rotateZAxis(@, angle)])

C18_DispatchMatchesHost ==
    host_accessor # <<>> =>
        \A i \in Items :
            host_accessor[1][i].points_ = HostResult(triangles[i], rotation.angle).points_

C18_Witness ==
    /\ host_accessor # <<>>
    /\ rotation.angle = 1
    /\ \A i \in Items : host_accessor[1][i].points_ # triangles[i].points_

\* C19: after the constructor and after every mutating call, the cached
\* matrix_inverse_ is the one buildInverse computes from the current
\* matrix_.
C19_InverseCacheFresh ==
    transform_matrix = buildInverse(transform_matrix)

C19_Witness ==
    /\ tcalls.n = MaxTransformCalls
    /\ tcalls.last = "translate"
    /\ transform_matrix.matrix_ # Identity
    /\ transform_matrix.matrix_inverse_ # transform_matrix.matrix_
    /\ transform_matrix.matrix_[12] # 0

\* C20: an update() that follows the constructor or another update(), with
\* no mutation of transformation_ in between, leaves points_, normals_,
\* v0v1_, v0v2_ and tangent_vec_ as they were before it.
C20_UpdateIdempotent ==
    (trilast.op = "update" /\ trilast.prev \in {"ctor", "update"}) =>
        Cached(triangle) = trilast.before

C20_Witness ==
    /\ trilast.op = "update"
    /\ trilast.prev = "update"
    /\ trilast.mutated
    /\ triangle.points_ # triangle.points_orig_
    /\ triangle.normals_ # triangle.normals_orig_

(***************************************************************************)
(* Properties of Triangle_t::intersection.                                 *)
(***************************************************************************)
\* the call of the claim: the first triangle of get_triangles(), a ray
\* from (0, 2, -1) with the given direction
GroundTruthCall(direction) ==
    /\ call.fn = "intersection"
    /\ call.done
    /\ call.tri = get_triangles[0]
    /\ call.ray = [origin_ |-> Vec3(0, 2, 0 - 1), direction_ |-> direction]

\* C21 as stated: the ray from (0, 2, -1) with direction (0, 0, 1) hits the
\* triangle (0,2,0), (1,2,0), (0,2,1) with t = 1 and uv = (0, 0), and the
\* ray with direction (0, 1, 0) does not hit it.
C21_GroundTruthHit ==
    /\ GroundTruthCall(Vec3(0, 0, 1)) =>
          call.out = [res |-> TRUE, t |-> 1, uv |-> Array(<<0, 0>>)]
    /\ GroundTruthCall(Vec3(0, 1, 0)) => ~call.out.res

\* C21 amended: neither ray hits. The ray with direction (0, 0, 1) lies in
\* the plane of the triangle: the determinant is 0 and the call returns
\* false without writing t or uv. The ray with direction (0, 1, 0) returns
\* false after writing uv = (0, -1).
C21_GroundTruthMiss ==
    /\ GroundTruthCall(Vec3(0, 0, 1)) =>
          call.out = [res |-> FALSE, t |-> 9, uv |-> Array(<<9, 9>>)]
    /\ GroundTruthCall(Vec3(0, 1, 0)) =>
          /\ ~call.out.res
          /\ call.out.uv = Array(<<0, 0 - 1>>)

C21_Witness == GroundTruthCall(Vec3(0, 0, 1)) /\ ~call.out.res

(***************************************************************************)
(* Properties of Diffuse_t::bounce.                                        *)
(***************************************************************************)
Bounced == call.fn = "bounce" /\ call.done

\* the albedo channels lie between lowest and 1
AlbedoWithin(lowest) ==
    \A k \in 0..2 : lowest <= call.mat.colour_[k] /\ call.mat.colour_[k] <= One

MaskNotLarger == dot(call.out.mask_, call.out.mask_) <= dot(call.ray.mask_, call.ray.mask_)

\* C22 as stated: with every albedo channel <= 1 (and roughness in [0,1])
\* the magnitude of the mask after a bounce is at most the one before it.
C22_MaskNeverGrows ==
    (Bounced /\ \A k \in 0..2 : call.mat.colour_[k] <= One) => MaskNotLarger

\* C22 amended: with every albedo channel in [0,1] (and roughness in [0,1])
\* the magnitude of the mask after a bounce is at most the one before it.
C22_MaskNeverGrowsUnitAlbedo ==
    (Bounced /\ AlbedoWithin(0)) => MaskNotLarger

C22_Witness ==
    /\ Bounced
    /\ AlbedoWithin(0)
    /\ call.mat.roughness_ = 2
    /\ call.rand2 = 9
    /\ dot(call.out.mask_, call.out.mask_) < dot(call.ray.mask_, call.ray.mask_)
    /\ dot(call.out.mask_, call.out.mask_) > 0

C23_GetScaleMaxOfRows ==
    (call.fn = "getScale" /\ call.done) =>
        call.out = max(max(magnitude(Vec3(call.matrix_[0], call.matrix_[1], call.matrix_[2])),
                           magnitude(Vec3(call.matrix_[4], call.matrix_[5], call.matrix_[6]))),
                       magnitude(Vec3(call.matrix_[8], call.matrix_[9], call.matrix_[10])))

(***************************************************************************)
(* The active medium of raycast.                                           *)
(***************************************************************************)
\* C24: whenever raycast consults the active medium of the ray, the medium
\* list of the ray is not empty (slot 0 is one of its n_mediums_ entries).
C24_ActiveMediumPresent ==
    \A k \in Events("scatter") : log[k].ray.medium_list_.n_mediums_ > 0

(***************************************************************************)
(* The cutoff of raycast on the mask.                                      *)
(***************************************************************************)
BelowCutoff(r) == magnitudeSquared(r.mask_) <= minimum_mask

MaterialOf(shape) == material_(shape) + 1

\* C25: over every Scene_t add or remove, on shapes, materials or media, the
\* material index of every shape of the scene that designated a material
\* still designates that same material value, within the bounds of the
\* material buffer.
C25_MaterialIndicesPreserved ==
    [][\A k \in DOMAIN shapes_' :
          MaterialOf(shapes_'[k]) \in DOMAIN materials_ =>
             /\ MaterialOf(shapes_'[k]) \in DOMAIN materials_'
             /\ materials_'[MaterialOf(shapes_'[k])] = materials_[MaterialOf(shapes_'[k])]]_vars

(***************************************************************************)
(* write() and zoom(factor) of the camera.                                 *)
(***************************************************************************)
\* C26: whenever write() has executed, the image had accumulated at least
\* one raytrace since its construction or its last reset(), so that the
\* update count write() divides by is not zero.
C26_WriteAfterRaytrace ==
    lastcall = "write" => image_.updates_ > 0

\* C30: zoom(factor) multiplies the field of view that the next update()
\* installs, so that two zooms compose to the product of their factors
\* whether or not update() is called between them.
C30_ZoomsCompose ==
    [][\A factor \in Factors :
          ZoomFactor(factor) => fov_buffer_' = <<fov_buffer_[1] * factor, fov_buffer_[2] * factor>>]_vars

(***************************************************************************)
(* The cached fields of a triangle between two calls of update().          *)
(***************************************************************************)
\* what the triangle answers to its callers: intersection for a few rays,
\* normal at the three corners, mincoord and maxcoord
Answers(tri) ==
    << [r \in [origin_ : {Vec3(0, 2, 0 - 1), Vec3(0, 1, 0)}, direction_ : Directions] |->
            intersection(tri, r, 9, Array(<<9, 9>>))],
       [uv \in {Array(<<0, 0>>), Array(<<1, 0>>), Array(<<0, 1>>)} |-> normal(tri, uv)],
       mincoord(tri), maxcoord(tri) >>

\* the triangle a constructor call derives from the fields of tri
Derived(tri) ==
    Triangle_t(tri.material_, tri.transformation_, tri.points_orig_,
               <<tri.normals_orig_>>, <<tri.texture_coordinates_>>)

\* C27: a mutation of transformation_ changes none of points_, normals_,
\* v0v1_, v0v2_, tangent_vec_, and intersection, normal, mincoord and
\* maxcoord keep answering from them; right after update() the cached fields
\* are those derived from the current transformation_ and the unchanged
\* points_orig_ and normals_orig_.
C27_CacheUntilUpdate ==
    /\ [][/\ (TriangleRotate \/ TriangleTranslate \/ TriangleScale) =>
                (Cached(triangle') = Cached(triangle) /\ Answers(triangle') = Answers(triangle))
          /\ triangle'.points_orig_ = triangle.points_orig_
          /\ triangle'.normals_orig_ = triangle.normals_orig_]_vars
    /\ [](trilast.op = "update" => Cached(triangle) = Cached(Derived(triangle)))

\* an update() that follows a mutation and replaces stale cached fields
C27_Witness ==
    /\ trilast.op = "update"
    /\ trilast.prev = "mutate"
    /\ Cached(triangle) # trilast.before
    /\ Answers(triangle) # Answers([triangle EXCEPT !.points_ = trilast.before[1], !.normals_ = trilast.before[2],
                                                     !.v0v1_ = trilast.before[3], !.v0v2_ = trilast.before[4],
                                                     !.tangent_vec_ = trilast.before[5]])

====
